---- MODULE Spec2Model ----
(***************************************************************************)
(* A model of the gomocker engine (src/unnamed/part_002): the registry of  *)
(* funcEntry values, the fluent builder (Mock/Stub, Expects, Returns,      *)
(* SideEffects, Times/Once/Twice, NotCalled), the dispatcher built by      *)
(* makeFunc and the teardown verifyAll.                                    *)
(***************************************************************************)
EXTENDS Integers, Sequences, FiniteSets, TLC

VARIABLES scope, entries, current, temp, patched, reports, calls, last, torn,
          phase, locker, gor

vars ==
    <<scope, entries, current, temp, patched, reports, calls, last, torn, phase,
      locker, gor>>

----------------------------------------------------------------------------
(* Bounds of the model.                                                    *)

\* most expectations (mockEntry slots) registered over all targets, in the
\* scopes "counts" and "extra"
MaxExpect == 2
\* the same in the other scopes, which vary the parameters, the callbacks
\* or the misuse of the builder
MaxRichExpect == 1
\* most dispatcher invocations over all targets
MaxCalls == 2
\* most callbacks registered over all expectations
MaxCallbacks == 1
\* the goroutines that invoke patched targets at the same time
MaxGoroutines == 2

----------------------------------------------------------------------------
(* Values.  A Go value of type any is a record [k, v]: k is its dynamic    *)
(* type ("nil" for the nil interface), v an integer payload.  A pointer    *)
(* keeps its address (0 is the nil pointer).  Matchers are values too: an  *)
(* expected parameter is a literal or a matcher (type parameter).          *)

Nil == [k |-> "nil", v |-> 0]
IntV(n) == [k |-> "int", v |-> n]
PtrV(a) == [k |-> "ptr", v |-> a]

\* Anything(): the matcher that bypasses the check
Anything == [k |-> "anything", v |-> 0]

\* Matches[T](matchFunc): v names the matchFunc in MatchFuncs
Matches(id) == [k |-> "matching", v |-> id]

\* The match functions the tests may pass to Matches: T is the type
\* parameter ("any" for an interface type), accept the set of values on
\* which matchFunc returns true, panics whether matchFunc panics.
MatchFuncs ==
    <<[T |-> "int", accept |-> {IntV(1)},             panics |-> FALSE],
      [T |-> "any", accept |-> {IntV(1)},             panics |-> FALSE],
      [T |-> "int", accept |-> {},                    panics |-> TRUE]>>

\* The targets and their Go types (reflect.Type of expectFunc): the kinds
\* of the parameters, whether the last one is variadic, the result kinds.
\*   foo: func() int         bar: func()           set: func(int)
\*   put: func(*int, any)    log: func(int, ...int)
Targets == {"foo", "bar", "set", "put", "log"}

FuncType ==
    [foo |-> [in |-> <<>>,               variadic |-> FALSE, out |-> <<"int">>],
     bar |-> [in |-> <<>>,               variadic |-> FALSE, out |-> <<>>],
     set |-> [in |-> <<"int">>,          variadic |-> FALSE, out |-> <<>>],
     put |-> [in |-> <<"ptr", "iface">>, variadic |-> FALSE, out |-> <<>>],
     log |-> [in |-> <<"int", "slice">>, variadic |-> TRUE,  out |-> <<>>]]

\* reflect.Value of an actual argument: typ is the declared kind of the
\* parameter, val the value held (for "iface" the dynamic value or Nil, for
\* "ptr" the address, for "slice" the sequence of its int elements).
RV(typ, val) == [typ |-> typ, val |-> val]

\* reflect.Value.Interface(): an interface-kinded Value yields the element
\* it holds (the nil interface when empty); every other kind is boxed with
\* its own dynamic type, so a nil pointer is a non-nil any.
Interface(actual) ==
    CASE actual.typ = "int"   -> IntV(actual.val)
      [] actual.typ = "ptr"   -> PtrV(actual.val)
      [] actual.typ = "iface" -> actual.val
      [] OTHER                -> [k |-> "slice", v |-> 0]

\* reflect.Value.IsNil(): panics unless the kind is chan, func, interface,
\* map, pointer or slice.
IsNilPanics(actual) == actual.typ \notin {"ptr", "iface", "slice"}

IsNil(actual) ==
    CASE actual.typ = "ptr"   -> actual.val = 0
      [] actual.typ = "iface" -> actual.val = Nil
      [] OTHER                -> FALSE

\* x.(T): the assertion panics when x is the nil interface, or when T is a
\* concrete type other than the dynamic type of x.
AssertPanics(x, T) == x.k = "nil" \/ (T # "any" /\ x.k # T)

\* reflect.DeepEqual on the values of the model
DeepEqual(a, b) == a.k = b.k /\ a.v = b.v

\* reflect.Zero(typ).Interface() of a declared kind
Zero(typ) ==
    CASE typ = "int" -> IntV(0)
      [] typ = "ptr" -> PtrV(0)
      [] OTHER       -> Nil

\* whether reflect accepts value x in a result slot of kind typ
Assignable(x, typ) == typ = "iface" \/ x.k = typ

----------------------------------------------------------------------------
(* Reports: the calls made on the tester.  by names the function that      *)
(* reports; call, index, expect and actual are the numbers handed to the   *)
(* format, ev and av the expected and the actual value (Nil when the       *)
(* format has none).                                                       *)

FatalKinds ==
    {"neversetup", "incomplete", "wasStub", "wasMock", "wasNoCall",
     "nosetup", "negative", "zero"}

Rep(kind, by, name, call, index, expect, actual, ev, av) ==
    [kind |-> kind, by |-> by, fatal |-> kind \in FatalKinds, name |-> name,
     call |-> call, index |-> index, expect |-> expect, actual |-> actual,
     ev |-> ev, av |-> av]

\* Errorf("[%v] Unepxected number of calls: expect %v, actual %v")
CallsRep(by, name, expect, actual) ==
    Rep("calls", by, name, 0, 0, expect, actual, Nil, Nil)

\* Errorf("[%v] Mocker panicing recovered: %v")
PanicRep(name) == Rep("panic", "recover", name, 0, 0, 0, 0, Nil, Nil)

\* the result of a step of the dispatcher: the reports it made and whether
\* it panicked (a panic ends the step where it is raised)
Ran(reps) == [reps |-> reps, panic |-> FALSE]
Panicked(reps) == [reps |-> reps, panic |-> TRUE]

----------------------------------------------------------------------------
(* Parameter verification.                                                 *)

\* matching[T].compare, anything.compare: "true", "false" or "panic"
Compare(param, value) ==
    IF param.k = "anything" THEN "true"
    ELSE LET f == MatchFuncs[param.v]
         IN IF AssertPanics(value, f.T) \/ f.panics THEN "panic"
            ELSE IF value \in f.accept THEN "true" ELSE "false"

IsParameter(expect) == expect.k \in {"anything", "matching"}

DoComparison(name, callsN, index, expect, actual) ==
    IF IsParameter(expect)
    THEN LET c == Compare(expect, Interface(actual))
         IN IF c = "panic" THEN Panicked(<<>>)
            ELSE IF c = "false"
                 THEN Ran(<<Rep("matchFunc", "doComparison", name, callsN,
                                index, 0, 0, Nil, Interface(actual))>>)
                 ELSE Ran(<<>>)
    ELSE IF expect = Nil
    THEN IF IsNilPanics(actual) THEN Panicked(<<>>)
         ELSE IF ~IsNil(actual)
              THEN Ran(<<Rep("param", "doComparison", name, callsN, index,
                             0, 0, expect, Interface(actual))>>)
              ELSE Ran(<<>>)
    ELSE IF ~DeepEqual(Interface(actual), expect)
         THEN Ran(<<Rep("param", "doComparison", name, callsN, index, 0, 0,
                        expect, Interface(actual))>>)
         ELSE Ran(<<>>)

\* the loop of compareNormalParameters from position i on
RECURSIVE NormalLoop(_, _, _, _, _)
NormalLoop(name, callsN, expects, actuals, i) ==
    IF i > Len(actuals) THEN Ran(<<>>)
    ELSE LET r == DoComparison(name, callsN, i, expects[i], actuals[i])
         IN IF r.panic THEN r
            ELSE LET rest == NormalLoop(name, callsN, expects, actuals, i + 1)
                 IN [reps |-> r.reps \o rest.reps, panic |-> rest.panic]

\* a compareNormalParameters that goes on to the loop after the report of
\* the numbers
MutCompareNormalParameters(name, callsN, expects, actuals) ==
    IF Len(expects) # Len(actuals)
    THEN LET rest == IF Len(expects) < Len(actuals) THEN Panicked(<<>>)
                     ELSE NormalLoop(name, callsN, expects, actuals, 1)
         IN [reps |-> <<Rep("nparams", "compareNormalParameters", name,
                            callsN, 0, Len(expects), Len(actuals), Nil, Nil)>>
                      \o rest.reps,
             panic |-> rest.panic]
    ELSE NormalLoop(name, callsN, expects, actuals, 1)

CompareNormalParameters(name, callsN, expects, actuals) ==
    IF Len(expects) # Len(actuals)
    THEN Ran(<<Rep("nparams", "compareNormalParameters", name, callsN, 0,
                   Len(expects), Len(actuals), Nil, Nil)>>)
    ELSE NormalLoop(name, callsN, expects, actuals, 1)

\* a compareVariadicParameters that compares the first element only
MutItemLoop(name, callsN, index, expects, base, items, e) ==
    IF base + e > Len(expects) THEN Ran(<<>>)
    ELSE DoComparison(name, callsN, index, expects[base + e],
                      RV("int", items[e]))

\* the inner loop of compareVariadicParameters over the elements of the
\* variadic slice: element e of items against expects[base + e], every
\* report carrying the position of the variadic parameter
RECURSIVE ItemLoop(_, _, _, _, _, _, _)
ItemLoop(name, callsN, index, expects, base, items, e) ==
    IF base + e > Len(expects) THEN Ran(<<>>)
    ELSE LET r == DoComparison(name, callsN, index, expects[base + e],
                               RV("int", items[e]))
         IN IF r.panic THEN r
            ELSE LET rest == ItemLoop(name, callsN, index, expects, base,
                                      items, e + 1)
                 IN [reps |-> r.reps \o rest.reps, panic |-> rest.panic]

\* the outer loop of compareVariadicParameters from position i on; reading
\* expects[i] beyond its length is an index out of range, a panic
RECURSIVE VariadicLoop(_, _, _, _, _)
VariadicLoop(name, callsN, expects, actuals, i) ==
    IF i > Len(actuals) THEN Ran(<<>>)
    ELSE IF i # Len(actuals)
    THEN IF i > Len(expects) THEN Panicked(<<>>)
         ELSE LET r == DoComparison(name, callsN, i, expects[i], actuals[i])
              IN IF r.panic THEN r
                 ELSE LET rest == VariadicLoop(name, callsN, expects,
                                               actuals, i + 1)
                      IN [reps |-> r.reps \o rest.reps, panic |-> rest.panic]
    ELSE IF Len(actuals[i].val) # Len(expects) - (i - 1)
         THEN Ran(<<Rep("nvariadic", "compareVariadicParameters", name,
                        callsN, 0, Len(expects) - (i - 1),
                        Len(actuals[i].val), Nil, Nil)>>)
         ELSE ItemLoop(name, callsN, i, expects, i - 1, actuals[i].val, 1)

CompareVariadicParameters(name, callsN, expects, actuals) ==
    VariadicLoop(name, callsN, expects, actuals, 1)

----------------------------------------------------------------------------
(* Side effects.  A callback is a record: k "general" or "param", T the    *)
(* type parameter of a parameterized callback, callIndex and paramIndex    *)
(* the numbers it was created with, panics whether its callbackFunc        *)
(* panics.                                                                 *)

GeneralSideEffect(callIndex, panics) ==
    [k |-> "general", T |-> "any", callIndex |-> callIndex, paramIndex |-> 0,
     panics |-> panics]

ParamSideEffect(T, callIndex, paramIndex, panics) ==
    [k |-> "param", T |-> T, callIndex |-> callIndex,
     paramIndex |-> paramIndex, panics |-> panics]

\* one run of a callbackFunc: cb is the position of the callback in the
\* expectation's list, call the call index it was executed with, param the
\* parameter position (0 for a general callback), val the value received
Fired(cb, call, param, val) ==
    [cb |-> cb, call |-> call, param |-> param, val |-> val]

\* the result of executing callbacks: the runs made and whether one panicked
Executed(fired) == [fired |-> fired, panic |-> FALSE]
Threw(fired) == [fired |-> fired, panic |-> TRUE]

\* generalCallback.execute and parameterizedCallback.execute, for the
\* callback at position cb of the list
Execute(c, cb, callIndex, paramIndex, paramValue) ==
    IF c.callIndex > 0 /\ c.callIndex # callIndex THEN Executed(<<>>)
    ELSE IF c.k = "general"
    THEN IF c.panics THEN Threw(<<>>)
         ELSE Executed(<<Fired(cb, callIndex, 0, Nil)>>)
    ELSE IF c.paramIndex # paramIndex THEN Executed(<<>>)
    ELSE IF AssertPanics(paramValue, c.T) \/ c.panics THEN Threw(<<>>)
    ELSE Executed(<<Fired(cb, callIndex, paramIndex, paramValue)>>)

\* the loop over args for a parameterized callback, from argument p on
RECURSIVE ArgLoop(_, _, _, _, _)
ArgLoop(c, cb, callIndex, args, p) ==
    IF p > Len(args) THEN Executed(<<>>)
    ELSE LET r == Execute(c, cb, callIndex, p, Interface(args[p]))
         IN IF r.panic THEN r
            ELSE LET rest == ArgLoop(c, cb, callIndex, args, p + 1)
                 IN [fired |-> r.fired \o rest.fired, panic |-> rest.panic]

\* the loop of makeFunc over mock.callbacks, from callback cb on
RECURSIVE CallbackLoop(_, _, _, _)
CallbackLoop(callbacks, callIndex, args, cb) ==
    IF cb > Len(callbacks) THEN Executed(<<>>)
    ELSE LET c == callbacks[cb]
             r == IF c.k = "general"
                  THEN Execute(c, cb, callIndex, 0, Nil)
                  ELSE ArgLoop(c, cb, callIndex, args, 1)
         IN IF r.panic THEN r
            ELSE LET rest == CallbackLoop(callbacks, callIndex, args, cb + 1)
                 IN [fired |-> r.fired \o rest.fired, panic |-> rest.panic]

----------------------------------------------------------------------------
(* Return synthesis.                                                       *)

\* a returnZeros that returns no value at all
MutReturnZeros(funcType) == <<>>

\* returnZeros: the zero value of every declared result
ReturnZeros(funcType) == [i \in 1..Len(funcType.out) |-> Zero(funcType.out[i])]

\* a constructReturns that hands a stored nil on as it is
MutConstructReturns(name, callsN, funcType, returns) ==
    IF Len(funcType.out) # Len(returns)
    THEN [reps |-> <<Rep("nreturns", "constructReturns", name, callsN, 0,
                         Len(funcType.out), Len(returns), Nil, Nil)>>,
          rets |-> ReturnZeros(funcType)]
    ELSE [reps |-> <<>>, rets |-> returns]

\* constructReturns: the reports made and the values returned
ConstructReturns(name, callsN, funcType, returns) ==
    IF Len(funcType.out) # Len(returns)
    THEN [reps |-> <<Rep("nreturns", "constructReturns", name, callsN, 0,
                         Len(funcType.out), Len(returns), Nil, Nil)>>,
          rets |-> ReturnZeros(funcType)]
    ELSE [reps |-> <<>>,
          rets |-> [i \in 1..Len(returns) |->
                      IF returns[i] = Nil THEN Zero(funcType.out[i])
                      ELSE returns[i]]]

----------------------------------------------------------------------------
(* The registry.                                                           *)

\* mockEntry
MockEntry(parameters, returns, callbacks) ==
    [parameters |-> parameters, returns |-> returns, callbacks |-> callbacks]

EmptyMock == MockEntry(<<>>, <<>>, <<>>)

\* m.temp: nil, or the mockEntry under construction
NilTemp == [nil |-> TRUE, mock |-> EmptyMock]
OpenTemp(mock) == [nil |-> FALSE, mock |-> mock]

\* funcEntry (its name is the target's); found is FALSE for an identity
\* that is no key of m.entries
FuncEntry(stub, expect, actual, nocall, verified, mocks) ==
    [found |-> TRUE, stub |-> stub, expect |-> expect, actual |-> actual,
     nocall |-> nocall, verified |-> verified, mocks |-> mocks]

NoEntry ==
    [found |-> FALSE, stub |-> FALSE, expect |-> 0, actual |-> 0,
     nocall |-> FALSE, verified |-> FALSE, mocks |-> <<>>]

\* m.current: nil, or the funcEntry of a target
NilCurrent == "nil"

SessionOpen == current # NilCurrent /\ ~temp.nil

----------------------------------------------------------------------------
(* The dispatcher: the function makeFunc builds for target name, applied   *)
(* to args.  Its result: the funcEntry as it leaves it, the reports made,  *)
(* the callback runs, the call number and the position of the mockEntry it *)
(* used (0 when it selected none), whether it took the branch of line 312  *)
(* (over), where a panic was raised inside it ("" for none), what it       *)
(* returned, and how the call ended for the caller: "returned",            *)
(* "panicked" (reflect.MakeFunc panics on a result slice of the wrong      *)
(* length or type, after the deferred recover has run) or "exited"         *)
(* (Fatalf has ended the goroutine).                                       *)

Outcome(entry, reps, fired, call, idx, over, panic, rets, end) ==
    [entry |-> entry, reps |-> reps, fired |-> fired, call |-> call,
     idx |-> idx, over |-> over, panic |-> panic, rets |-> rets, end |-> end]

\* how reflect takes the result slice rets of the closure
ReflectEnd(funcType, rets) ==
    IF Len(rets) # Len(funcType.out) THEN "panicked"
    ELSE IF \E i \in 1..Len(rets) : ~Assignable(rets[i], funcType.out[i])
         THEN "panicked"
         ELSE "returned"

\* the deferred m.recover(name) after a panic: one report, and the closure
\* returns its zero result, a nil slice
Recovered(name, funcType, entry, reps, fired, idx, over, panic) ==
    Outcome(entry, reps \o <<PanicRep(name)>>, fired, entry.actual, idx, over,
            panic, <<>>, ReflectEnd(funcType, <<>>))

\* a dispatcher that verifies the parameters of a stub too
MutVerifyParameters(name, funcType, entry, mock, args) ==
    IF funcType.variadic
    THEN CompareVariadicParameters(name, entry.actual, mock.parameters, args)
    ELSE CompareNormalParameters(name, entry.actual, mock.parameters, args)

\* lines 326-332: the parameters are verified unless the entry is a stub
VerifyParameters(name, funcType, entry, mock, args) ==
    IF entry.stub THEN Ran(<<>>)
    ELSE IF funcType.variadic
         THEN CompareVariadicParameters(name, entry.actual, mock.parameters,
                                        args)
         ELSE CompareNormalParameters(name, entry.actual, mock.parameters,
                                      args)

\* a dispatcher that marks the entry as verified when the call makes a
\* report about its parameters or its returns
MutUseMockAt(name, funcType, entry, args, over, idx) ==
    IF idx < 1 \/ idx > Len(entry.mocks)
    THEN Recovered(name, funcType, entry, <<>>, <<>>, 0, over, "index")
    ELSE
    LET mock == entry.mocks[idx]
        cmp == VerifyParameters(name, funcType, entry, mock, args)
    IN IF cmp.panic
       THEN Recovered(name, funcType, entry, cmp.reps, <<>>, idx, over,
                      "compare")
       ELSE
       LET cbs == CallbackLoop(mock.callbacks, entry.actual, args, 1)
       IN IF cbs.panic
          THEN Recovered(name, funcType, entry, cmp.reps, cbs.fired, idx,
                         over, "callback")
          ELSE
          LET ret == ConstructReturns(name, entry.actual, funcType,
                                      mock.returns)
              reps == cmp.reps \o ret.reps
          IN Outcome([entry EXCEPT !.verified = @ \/ reps # <<>>], reps,
                     cbs.fired, entry.actual, idx, over, "", ret.rets,
                     ReflectEnd(funcType, ret.rets))

\* lines 325-343 with the mockEntry at position idx (entry.mocks[idx-1] of
\* the source); a position outside the slice is an index out of range
UseMockAt(name, funcType, entry, args, over, idx) ==
    IF idx < 1 \/ idx > Len(entry.mocks)
    THEN Recovered(name, funcType, entry, <<>>, <<>>, 0, over, "index")
    ELSE
    LET mock == entry.mocks[idx]
        cmp == VerifyParameters(name, funcType, entry, mock, args)
    IN IF cmp.panic
       THEN Recovered(name, funcType, entry, cmp.reps, <<>>, idx, over,
                      "compare")
       ELSE
       LET cbs == CallbackLoop(mock.callbacks, entry.actual, args, 1)
       IN IF cbs.panic
          THEN Recovered(name, funcType, entry, cmp.reps, cbs.fired, idx,
                         over, "callback")
          ELSE
          LET ret == ConstructReturns(name, entry.actual, funcType,
                                      mock.returns)
          IN Outcome(entry, cmp.reps \o ret.reps, cbs.fired, entry.actual,
                     idx, over, "", ret.rets,
                     ReflectEnd(funcType, ret.rets))

\* a dispatcher that always takes the mockEntry registered last
MutUseMockLatest(name, funcType, entry, args, over) ==
    UseMockAt(name, funcType, entry, args, over, Len(entry.mocks))

\* line 325: var mock = entry.mocks[entry.actual-1]
UseMock(name, funcType, entry, args, over) ==
    UseMockAt(name, funcType, entry, args, over, entry.actual)

\* a dispatcher that sends a stub's call beyond the counts to the first
\* mockEntry
MutOverflowFirst(name, funcType, entry, args) ==
    IF ~entry.stub
    THEN LET rets == ReturnZeros(funcType)
         IN Outcome([entry EXCEPT !.verified = TRUE],
                    <<CallsRep("makeFunc", name, entry.expect, entry.actual)>>,
                    <<>>, entry.actual, 0, TRUE, "", rets,
                    ReflectEnd(funcType, rets))
    ELSE UseMock(name, funcType, [entry EXCEPT !.actual = 1], args, TRUE)

\* lines 313-323: the call counted in entry.actual is beyond entry.expect or
\* beyond the mocks
Overflow(name, funcType, entry, args) ==
    IF ~entry.stub
    THEN LET rets == ReturnZeros(funcType)
         IN Outcome([entry EXCEPT !.verified = TRUE],
                    <<CallsRep("makeFunc", name, entry.expect, entry.actual)>>,
                    <<>>, entry.actual, 0, TRUE, "", rets,
                    ReflectEnd(funcType, rets))
    ELSE UseMock(name, funcType, [entry EXCEPT !.actual = Len(entry.mocks)],
                 args, TRUE)

\* a dispatcher that registers the identity it does not find
MutMakeFunc(name, funcType, entry, args) ==
    IF ~entry.found
    THEN Outcome(FuncEntry(FALSE, 0, 1, FALSE, FALSE, <<>>),
                 <<Rep("neversetup", "makeFunc", name, 0, 0, 0, 0, Nil, Nil)>>,
                 <<>>, 0, 0, FALSE, "", <<>>, "exited")
    ELSE
    LET counted == [entry EXCEPT !.actual = entry.actual + 1]
    IN IF counted.actual > counted.expect \/ counted.actual > Len(counted.mocks)
       THEN Overflow(name, funcType, counted, args)
       ELSE UseMock(name, funcType, counted, args, FALSE)

\* lines 300-344
MakeFunc(name, funcType, entry, args) ==
    IF ~entry.found
    THEN Outcome(entry,
                 <<Rep("neversetup", "makeFunc", name, 0, 0, 0, 0, Nil, Nil)>>,
                 <<>>, 0, 0, FALSE, "", <<>>, "exited")
    ELSE
    LET counted == [entry EXCEPT !.actual = entry.actual + 1]
    IN IF counted.actual > counted.expect \/ counted.actual > Len(counted.mocks)
       THEN Overflow(name, funcType, counted, args)
       ELSE UseMock(name, funcType, counted, args, FALSE)

----------------------------------------------------------------------------
(* The builder.  Each operation yields the registry as it leaves it and    *)
(* the reports it made.                                                    *)

Built(e, c, t, reps) == [entries |-> e, current |-> c, temp |-> t, reps |-> reps]

Usage(kind, by, name, count) ==
    Rep(kind, by, name, 0, 0, count, 0, Nil, Nil)

\* a setup that does not look for an open session
MutSetupOpen(name, stub) ==
    IF entries[name].found
    THEN IF entries[name].stub # stub
         THEN Built(entries, current, temp,
                    <<Usage(IF entries[name].stub THEN "wasStub" ELSE "wasMock",
                            "setup", name, 0)>>)
         ELSE IF entries[name].nocall
         THEN Built(entries, current, temp,
                    <<Usage("wasNoCall", "setup", name, 0)>>)
         ELSE Built(entries, name, OpenTemp(EmptyMock), <<>>)
    ELSE Built([entries EXCEPT ![name] = FuncEntry(stub, 0, 0, FALSE, FALSE, <<>>)],
               name, OpenTemp(EmptyMock), <<>>)

\* a setup that does not look at the mode or at nocall of a former setup
MutSetupFormer(name, stub) ==
    IF current # NilCurrent \/ ~temp.nil
    THEN Built(entries, current, temp, <<Usage("incomplete", "setup", name, 0)>>)
    ELSE IF entries[name].found
    THEN Built(entries, name, OpenTemp(EmptyMock), <<>>)
    ELSE Built([entries EXCEPT ![name] = FuncEntry(stub, 0, 0, FALSE, FALSE, <<>>)],
               name, OpenTemp(EmptyMock), <<>>)

\* a setup that takes the mode of the latest registration
MutSetupMix(name, stub) ==
    IF current # NilCurrent \/ ~temp.nil
    THEN Built(entries, current, temp, <<Usage("incomplete", "setup", name, 0)>>)
    ELSE IF entries[name].found
    THEN Built([entries EXCEPT ![name] = [@ EXCEPT !.stub = stub,
                                                   !.nocall = FALSE]],
               name, OpenTemp(EmptyMock), <<>>)
    ELSE Built([entries EXCEPT ![name] = FuncEntry(stub, 0, 0, FALSE, FALSE, <<>>)],
               name, OpenTemp(EmptyMock), <<>>)

\* setup
Setup(name, stub) ==
    IF current # NilCurrent \/ ~temp.nil
    THEN Built(entries, current, temp, <<Usage("incomplete", "setup", name, 0)>>)
    ELSE IF entries[name].found
    THEN IF entries[name].stub # stub
         THEN Built(entries, current, temp,
                    <<Usage(IF entries[name].stub THEN "wasStub" ELSE "wasMock",
                            "setup", name, 0)>>)
         ELSE IF entries[name].nocall
         THEN Built(entries, current, temp,
                    <<Usage("wasNoCall", "setup", name, 0)>>)
         ELSE Built(entries, name, OpenTemp(EmptyMock), <<>>)
    ELSE Built([entries EXCEPT ![name] = FuncEntry(stub, 0, 0, FALSE, FALSE, <<>>)],
               name, OpenTemp(EmptyMock), <<>>)

\* Expects
ExpectsOp(parameters) ==
    IF current = NilCurrent \/ temp.nil
    THEN Built(entries, current, temp, <<Usage("nosetup", "Expects", "", 0)>>)
    ELSE Built(entries, current,
               [temp EXCEPT !.mock.parameters = parameters], <<>>)

\* a Returns that writes the values to the expectations already finalized
\* for the target too
MutReturnsShared(values) ==
    IF current = NilCurrent \/ temp.nil
    THEN Built(entries, current, temp, <<Usage("nosetup", "Returns", "", 0)>>)
    ELSE Built([entries EXCEPT ![current].mocks =
                   [i \in DOMAIN @ |-> [@[i] EXCEPT !.returns = values]]],
               current, [temp EXCEPT !.mock.returns = values], <<>>)

\* a Returns that does not look for an open session
MutReturnsOp(values) ==
    Built(entries, current, [temp EXCEPT !.mock.returns = values], <<>>)

\* Returns
ReturnsOp(values) ==
    IF current = NilCurrent \/ temp.nil
    THEN Built(entries, current, temp, <<Usage("nosetup", "Returns", "", 0)>>)
    ELSE Built(entries, current, [temp EXCEPT !.mock.returns = values], <<>>)

\* a SideEffects that puts its callbacks in the place of the former ones
MutSideEffectsOp(callbacks) ==
    IF current = NilCurrent \/ temp.nil
    THEN Built(entries, current, temp,
               <<Usage("nosetup", "SideEffects", "", 0)>>)
    ELSE Built(entries, current,
               [temp EXCEPT !.mock.callbacks = callbacks], <<>>)

\* SideEffects
SideEffectsOp(callbacks) ==
    IF current = NilCurrent \/ temp.nil
    THEN Built(entries, current, temp,
               <<Usage("nosetup", "SideEffects", "", 0)>>)
    ELSE Built(entries, current,
               [temp EXCEPT !.mock.callbacks = @ \o callbacks], <<>>)

\* a NotCalled that leaves expect and mocks as they are
MutNotCalledOp ==
    IF current = NilCurrent \/ temp.nil
    THEN Built(entries, current, temp, <<Usage("nosetup", "NotCalled", "", 0)>>)
    ELSE Built([entries EXCEPT ![current] = [@ EXCEPT !.nocall = TRUE]],
               NilCurrent, NilTemp, <<>>)

\* a NotCalled that keeps the mocks of former sessions
MutNotCalledKeeps ==
    IF current = NilCurrent \/ temp.nil
    THEN Built(entries, current, temp, <<Usage("nosetup", "NotCalled", "", 0)>>)
    ELSE Built([entries EXCEPT ![current] =
                   [@ EXCEPT !.nocall = TRUE, !.expect = 0]],
               NilCurrent, NilTemp, <<>>)

\* NotCalled
NotCalledOp ==
    IF current = NilCurrent \/ temp.nil
    THEN Built(entries, current, temp, <<Usage("nosetup", "NotCalled", "", 0)>>)
    ELSE Built([entries EXCEPT ![current] =
                   [@ EXCEPT !.nocall = TRUE, !.expect = 0,
                             !.mocks = <<EmptyMock>>]],
               NilCurrent, NilTemp, <<>>)

\* a Times that clears the verified mark of the target
MutTimesResets(count) ==
    IF current = NilCurrent \/ temp.nil
    THEN Built(entries, current, temp, <<Usage("nosetup", "Times", "", 0)>>)
    ELSE IF count < 0
    THEN Built(entries, current, temp,
               <<Usage("negative", "Times", current, count)>>)
    ELSE IF count = 0
    THEN Built(entries, current, temp, <<Usage("zero", "Times", current, 0)>>)
    ELSE Built([entries EXCEPT ![current] =
                   [@ EXCEPT !.expect = @ + count,
                             !.verified = FALSE,
                             !.mocks = @ \o [i \in 1..count |-> temp.mock]]],
               NilCurrent, NilTemp, <<>>)

\* a Times that takes a count of zero
MutTimesZero(count) ==
    IF current = NilCurrent \/ temp.nil
    THEN Built(entries, current, temp, <<Usage("nosetup", "Times", "", 0)>>)
    ELSE IF count < 0
    THEN Built(entries, current, temp,
               <<Usage("negative", "Times", current, count)>>)
    ELSE Built([entries EXCEPT ![current] =
                   [@ EXCEPT !.expect = @ + count,
                             !.mocks = @ \o [i \in 1..count |-> temp.mock]]],
               NilCurrent, NilTemp, <<>>)

\* a Times that appends one mockEntry whatever the count
MutTimesOp(count) ==
    IF current = NilCurrent \/ temp.nil
    THEN Built(entries, current, temp, <<Usage("nosetup", "Times", "", 0)>>)
    ELSE IF count < 0
    THEN Built(entries, current, temp,
               <<Usage("negative", "Times", current, count)>>)
    ELSE IF count = 0
    THEN Built(entries, current, temp, <<Usage("zero", "Times", current, 0)>>)
    ELSE Built([entries EXCEPT ![current] =
                   [@ EXCEPT !.expect = @ + count,
                             !.mocks = Append(@, temp.mock)]],
               NilCurrent, NilTemp, <<>>)

\* Times
TimesOp(count) ==
    IF current = NilCurrent \/ temp.nil
    THEN Built(entries, current, temp, <<Usage("nosetup", "Times", "", 0)>>)
    ELSE IF count < 0
    THEN Built(entries, current, temp,
               <<Usage("negative", "Times", current, count)>>)
    ELSE IF count = 0
    THEN Built(entries, current, temp, <<Usage("zero", "Times", current, 0)>>)
    ELSE Built([entries EXCEPT ![current] =
                   [@ EXCEPT !.expect = @ + count,
                             !.mocks = @ \o [i \in 1..count |-> temp.mock]]],
               NilCurrent, NilTemp, <<>>)

\* a verifyAll that reports the entries whose counts agree
MutShouldReportEqual(entry) ==
    IF entry.verified THEN FALSE
    ELSE ~entry.stub /\ entry.expect = entry.actual

\* a verifyAll that does not look at entry.verified
MutShouldReportVerified(entry) ==
    ~entry.stub /\ entry.expect # entry.actual

\* lines 609-612: whether verifyAll reports the entry
ShouldReport(entry) ==
    IF entry.verified THEN FALSE
    ELSE ~entry.stub /\ entry.expect # entry.actual

\* the reports verifyAll makes for the entries in the order it ranges over
VerifyReps(order) ==
    LET one(name) ==
            IF ShouldReport(entries[name])
            THEN <<CallsRep("verifyAll", name, entries[name].expect,
                            entries[name].actual)>>
            ELSE <<>>
        f[i \in 0..Len(order)] ==
            IF i = 0 THEN <<>> ELSE f[i - 1] \o one(order[i])
    IN f[Len(order)]

----------------------------------------------------------------------------
(* The inputs of the operations.  A run is one test; its scope says which  *)
(* targets the test sets up and which of its inputs vary: the returns and  *)
(* the counts ("counts"), the callbacks ("effects"), or the expected and   *)
(* actual parameters of an int, a nilable or a variadic signature.  The    *)
(* test of scope "usage" is the one that misuses the builder: only there   *)
(* is an operation tried in a state in which it ends in Fatalf.  The test  *)
(* of scope "extra" has one target and calls it once more than the others. *)
(* The test of scope "index" attaches callbacks that are bound to a call    *)
(* or to a parameter, the test of scope "returns" stores nil and too many  *)
(* return values.                                                          *)

Scopes ==
    {"counts", "usage", "effects", "int", "nilable", "variadic", "extra",
     "index", "returns", "order"}

ScopeTargets ==
    CASE scope = "int"      -> {"set"}
      [] scope = "nilable"  -> {"put"}
      [] scope = "index"    -> {"put"}
      [] scope = "variadic" -> {"log"}
      [] scope = "effects"  -> {"foo"}
      [] scope = "extra"    -> {"foo"}
      [] scope = "returns"  -> {"foo"}
      [] scope = "order"    -> {"foo"}
      [] OTHER              -> {"foo", "bar"}

ParamChoices(t) ==
    CASE t = "set" -> {<<IntV(1)>>, <<Nil>>, <<Anything>>, <<Matches(1)>>,
                       <<Matches(3)>>, <<Matches(3), IntV(2)>>}
      [] t = "put" -> IF scope = "index" THEN {<<Anything, Anything>>}
                      ELSE {<<Nil, Nil>>, <<PtrV(1), IntV(1)>>,
                            <<Anything, Matches(2)>>}
      [] t = "log" -> {<<>>, <<IntV(1)>>, <<IntV(1), IntV(2)>>,
                       <<IntV(1), Anything, IntV(2)>>}
      [] OTHER     -> {<<>>}

ReturnChoices(t) ==
    IF scope = "extra"
    THEN {<<IntV(1)>>, <<IntV(2)>>}
    ELSE IF scope = "returns"
    THEN {<<IntV(1)>>, <<Nil>>, <<IntV(1), IntV(2)>>}
    ELSE IF scope \in {"counts", "effects", "order"}
    THEN CASE t = "foo" -> {<<IntV(1)>>}
           [] OTHER     -> {<<>>}
    ELSE {<<>>}

CallbackChoices ==
    CASE scope = "effects" ->
            {<<GeneralSideEffect(0, FALSE)>>, <<GeneralSideEffect(0, TRUE)>>}
      [] scope = "index" ->
            {<<GeneralSideEffect(2, FALSE)>>,
             <<ParamSideEffect("any", 0, 2, FALSE)>>,
             <<ParamSideEffect("any", 1, 3, FALSE)>>}
      [] scope = "order" ->
            {<<GeneralSideEffect(0, FALSE)>>, <<GeneralSideEffect(1, FALSE)>>}
      [] OTHER -> {<<>>}

ArgChoices(t) ==
    CASE t = "set" -> {<<RV("int", n)>> : n \in {0, 1}}
      [] t = "put" -> IF scope = "index"
                      THEN {<<RV("ptr", 1), RV("iface", x)>> :
                              x \in {Nil, IntV(1)}}
                      ELSE {<<RV("ptr", a), RV("iface", x)>> :
                              a \in {0, 1}, x \in {Nil, IntV(1), IntV(2)}}
      [] t = "log" -> {<<RV("int", n), RV("slice", xs)>> :
                         n \in {0, 1}, xs \in {<<2>>, <<2, 3>>}}
      [] OTHER     -> {<<>>}

ExpectBound ==
    IF scope \in {"counts", "extra"} THEN MaxExpect ELSE MaxRichExpect

CallBound ==
    CASE scope = "extra" -> MaxCalls + 1
      [] scope = "order" -> MaxCalls - 1
      [] OTHER           -> MaxCalls

\* the scope "order" registers one callback more, to have two in a list
CallbackBound == IF scope = "order" THEN MaxCallbacks + 1 ELSE MaxCallbacks

\* Times is tried with a negative count, zero, and the counts that fit
TimesChoices == -1..ExpectBound

----------------------------------------------------------------------------
(* The state machine.  phase is "test" while the test function runs,       *)
(* "failed" once a Fatalf has ended its goroutine (testing.TB: Fatalf is   *)
(* Logf followed by FailNow, which calls runtime.Goexit; the deferred      *)
(* Unlock runs, the statements after Fatalf do not), and "done" after the  *)
(* Cleanup verifyAll.                                                      *)

RECURSIVE SumOver(_, _)
SumOver(f, S) ==
    IF S = {} THEN 0
    ELSE LET x == CHOOSE y \in S : TRUE IN f[x] + SumOver(f, S \ {x})

TotalExpect(e) == SumOver([t \in Targets |-> Len(e[t].mocks)], Targets)
TotalCallbacks(e) ==
    SumOver([t \in Targets |->
                SumOver([i \in DOMAIN e[t].mocks |->
                            Len(e[t].mocks[i].callbacks)],
                        DOMAIN e[t].mocks)],
            Targets)
TotalCalls == SumOver(calls, Targets)
HasFatal(reps) == \E i \in 1..Len(reps) : reps[i].fatal

\* m.locker is a sync.Mutex: Unlocked, or the goroutine that locked it.  In
\* Spec one goroutine runs the test, and Mock and Stub lock and unlock
\* within their step.  gor is used by SpecConc, below.
Unlocked == 0
Goroutines == 1..MaxGoroutines

\* History kept for the properties.  calls[t] counts the invocations of
\* target t.  last is the most recent operation: its name and target
\* ("builder" for Expects, Returns and SideEffects that ended without
\* Fatalf; the count as args for Times, Once and Twice), and for a
\* dispatched call its arguments and what MakeFunc says of it; nrep is the
\* number of reports the operation made.  torn is m.entries as
\* verifyAll found it.  install tells that the operation called
\* patches.ApplyCore.
LastOp(op, t, nrep) ==
    [op |-> op, t |-> t, args |-> <<>>, call |-> 0, idx |-> 0, over |-> FALSE,
     panic |-> "", rets |-> <<>>, end |-> "returned", fired |-> <<>>,
     nrep |-> nrep, install |-> FALSE]

LastCall(t, args, out) ==
    [op |-> "call", t |-> t, args |-> args, call |-> out.call, idx |-> out.idx,
     over |-> out.over, panic |-> out.panic, rets |-> out.rets,
     end |-> out.end, fired |-> out.fired, nrep |-> Len(out.reps),
     install |-> FALSE]

Init ==
    /\ scope \in Scopes
    /\ entries = [t \in Targets |-> NoEntry]
    /\ current = NilCurrent
    /\ temp = NilTemp
    /\ patched = {}
    /\ reports = <<>>
    /\ calls = [t \in Targets |-> 0]
    /\ last = LastOp("NewMocker", "", 0)
    /\ torn = [t \in Targets |-> NoEntry]
    /\ phase = "test"
    /\ locker = Unlocked
    /\ gor = [g \in Goroutines |-> <<>>]

\* what last holds after Times(count) that ended without a report
LastTimes(t, count) ==
    [LastOp("Times", t, 0) EXCEPT !.args = <<IntV(count)>>]

\* a builder operation that made the registry b; done is what last holds
\* when it ended without a fatal report
BuildAs(op, t, b, done) ==
    /\ phase = "test"
    /\ HasFatal(b.reps) => scope = "usage"
    /\ TotalExpect(b.entries) <= ExpectBound
    /\ TotalCallbacks(b.entries) + Len(b.temp.mock.callbacks) <= CallbackBound
    /\ entries' = b.entries
    /\ current' = b.current
    /\ temp' = b.temp
    /\ reports' = reports \o b.reps
    /\ last' = IF HasFatal(b.reps)
               THEN [LastOp(op, t, Len(b.reps)) EXCEPT !.args = done.args]
               ELSE done
    /\ phase' = IF HasFatal(b.reps) THEN "failed" ELSE phase
    /\ UNCHANGED <<scope, calls, torn, locker, gor>>

Build(op, t, b) ==
    BuildAs(op, t, b, IF op = "NotCalled"
                      THEN LastOp(op, t, Len(b.reps))
                      ELSE LastOp("builder", "", 0))

\* what last holds after Mock or Stub reached patches.ApplyCore
LastSetup(op, t) == [LastOp(op, t, 0) EXCEPT !.install = TRUE]

\* a Mock that calls patches.ApplyCore for a target not yet patched only
MutMock(t) ==
    LET b == Setup(t, FALSE)
    IN /\ BuildAs("Mock", t, b,
                  [LastOp("Mock", t, 0) EXCEPT !.install = t \notin patched])
       /\ patched' = IF HasFatal(b.reps) THEN patched ELSE patched \cup {t}

\* Mock and Stub: setup, then patches.ApplyCore; Fatalf in setup ends the
\* goroutine before ApplyCore
Mock(t) ==
    LET b == Setup(t, FALSE)
    IN /\ BuildAs("Mock", t, b, LastSetup("Mock", t))
       /\ patched' = IF HasFatal(b.reps) THEN patched ELSE patched \cup {t}

\* a Stub that leaves the redirection to the finalizing call
MutStub(t) ==
    LET b == Setup(t, TRUE)
    IN /\ BuildAs("Stub", t, b, LastOp("Stub", t, 0))
       /\ UNCHANGED patched

Stub(t) ==
    LET b == Setup(t, TRUE)
    IN /\ BuildAs("Stub", t, b, LastSetup("Stub", t))
       /\ patched' = IF HasFatal(b.reps) THEN patched ELSE patched \cup {t}

Expects ==
    \E parameters \in ParamChoices(current) :
        /\ Build("Expects", current, ExpectsOp(parameters))
        /\ UNCHANGED patched

Returns ==
    \E values \in ReturnChoices(current) :
        /\ Build("Returns", current, ReturnsOp(values))
        /\ UNCHANGED patched

SideEffects ==
    \E callbacks \in CallbackChoices :
        /\ Build("SideEffects", current, SideEffectsOp(callbacks))
        /\ UNCHANGED patched

NotCalled ==
    /\ Build("NotCalled", current, NotCalledOp)
    /\ UNCHANGED patched

\* Once and Twice are m.Times(1) and m.Times(2)
Once ==
    /\ BuildAs("Times", current, TimesOp(1), LastTimes(current, 1))
    /\ UNCHANGED patched

Twice ==
    /\ BuildAs("Times", current, TimesOp(2), LastTimes(current, 2))
    /\ UNCHANGED patched

Times ==
    \E count \in TimesChoices :
        /\ BuildAs("Times", current, TimesOp(count), LastTimes(current, count))
        /\ UNCHANGED patched

\* an invocation of a patched target: the dispatcher runs.  In the test of
\* scope "usage" the function makeFunc built is also called for an identity
\* that is no key of m.entries.
Call(t) ==
    /\ phase = "test"
    /\ t \in patched \/ (scope = "usage" /\ ~entries[t].found)
    /\ TotalCalls < CallBound
    /\ \E args \in ArgChoices(t) :
        LET out == MakeFunc(t, FuncType[t], entries[t], args)
        IN /\ entries' = [entries EXCEPT ![t] = out.entry]
           /\ reports' = reports \o out.reps
           /\ calls' = [calls EXCEPT ![t] = @ + 1]
           /\ last' = LastCall(t, args, out)
           /\ phase' = IF HasFatal(out.reps) THEN "failed" ELSE phase
           /\ UNCHANGED <<scope, current, temp, patched, torn, locker, gor>>

\* the orders in which a range over the map m.entries may visit its keys
Orders(S) ==
    {o \in [1..Cardinality(S) -> S] : \A i, j \in DOMAIN o : i # j => o[i] # o[j]}

\* verifyAll, the tester's Cleanup
VerifyAll ==
    /\ phase # "done"
    /\ \E order \in Orders({t \in Targets : entries[t].found}) :
        /\ reports' = reports \o VerifyReps(order)
        /\ last' = LastOp("verifyAll", "", Len(VerifyReps(order)))
    /\ entries' = [t \in Targets |-> NoEntry]
    /\ torn' = entries
    /\ patched' = {}
    /\ phase' = "done"
    /\ UNCHANGED <<scope, current, temp, calls, locker, gor>>

Next ==
    \/ \E t \in ScopeTargets : Mock(t)
    \/ \E t \in ScopeTargets : Stub(t)
    \/ Expects
    \/ Returns
    \/ SideEffects
    \/ NotCalled
    \/ Once
    \/ Twice
    \/ Times
    \/ \E t \in ScopeTargets : Call(t)
    \/ VerifyAll

Spec == Init /\ [][Next]_vars

----------------------------------------------------------------------------
(* Goroutines.  SpecConc starts after the test has set up foo (and bar),   *)
(* and lets the goroutines of Goroutines invoke the patched targets at the *)
(* same time.  The function makeFunc built runs in steps: entry.actual++   *)
(* (line 311) is a read and a write of a shared field with no lock held,   *)
(* so other goroutines may run between the two.  gor[g] is the stack of    *)
(* the dispatcher frames of goroutine g, the innermost last; a frame holds *)
(* its target t, its position pc, the value read of entry.actual, num, the *)
(* call number it passed on to the first side effect, idx, the position of *)
(* the mockEntry it selected, and rest, the call number it passed on to    *)
(* what follows the first side effect.  Every goroutine invokes foo once;  *)
(* the frame of the call stays, at "done", when the call has returned.     *)
(* scope tells what the first side effect of the expectations of foo does: *)
(* nothing ("plain", "teardown"), invoke foo ("same"), invoke bar          *)
(* ("other"), or register bar with m.Mock(bar).Times(1) ("setup").  In the *)
(* test of scope "teardown" the test function returns while its goroutine  *)
(* may still invoke foo: verifyAll runs, in two steps, at the same time.   *)

ConcScopes == {"plain", "same", "other", "setup", "teardown"}

Frame(t, pc) ==
    [t |-> t, pc |-> pc, read |-> 0, num |-> 0, idx |-> 0, rest |-> 0]

Top(g) == gor[g][Len(gor[g])]
At(g, pc) == gor[g] # <<>> /\ Top(g).pc = pc
Push(g, f) == [gor EXCEPT ![g] = Append(@, f)]
Pop(g) == [gor EXCEPT ![g] = SubSeq(@, 1, Len(@) - 1)]
Goto(g, pc) == [gor EXCEPT ![g][Len(gor[g])].pc = pc]
\* Fatalf on goroutine g: runtime.Goexit ends it, all its frames are gone
Goexit(g) == [gor EXCEPT ![g] = <<Frame("", "exited")>>]

\* the funcEntry values the running dispatchers hold pointers to: those of
\* m.entries, and once verifyAll has replaced the map, those of the map it
\* replaced
Held == IF phase = "test" THEN entries ELSE torn

ConcInit ==
    /\ scope \in ConcScopes
    /\ \E stub \in {FALSE} \cup (IF scope = "plain" THEN {TRUE} ELSE {}) :
       \E n \in {IF scope = "same" THEN 1 ELSE MaxGoroutines} :
          entries =
             [t \in Targets |->
                IF t = "foo"
                THEN FuncEntry(stub, n, 0, FALSE, FALSE,
                               [i \in 1..n |-> MockEntry(<<>>, <<IntV(1)>>, <<>>)])
                ELSE IF t = "bar" /\ scope = "other"
                THEN FuncEntry(FALSE, 1, 0, FALSE, FALSE, <<EmptyMock>>)
                ELSE NoEntry]
    /\ patched = IF scope = "other" THEN {"foo", "bar"} ELSE {"foo"}
    /\ current = NilCurrent
    /\ temp = NilTemp
    /\ reports = <<>>
    /\ calls = [t \in Targets |-> 0]
    /\ last = LastOp("NewMocker", "", 0)
    /\ torn = [t \in Targets |-> NoEntry]
    /\ phase = "test"
    /\ locker = Unlocked
    /\ gor = [g \in Goroutines |-> <<>>]

\* goroutine g invokes foo while foo is patched, once; where the side
\* effect invokes a target again, or the test ends early, one goroutine runs
GoCall(g) ==
    /\ gor[g] = <<>>
    /\ "foo" \in patched
    /\ scope \in {"same", "other", "teardown"} => g = 1
    /\ gor' = Push(g, Frame("foo", "load"))
    /\ calls' = [calls EXCEPT !["foo"] = @ + 1]
    /\ UNCHANGED <<scope, entries, current, temp, patched, reports, last, torn,
                   phase, locker>>

\* a dispatcher that locks m.locker when it starts and keeps it locked
\* while the side effect runs
MutLoad(g) ==
    /\ At(g, "load")
    /\ locker = Unlocked
    /\ locker' = g
    /\ gor' = [gor EXCEPT ![g][Len(gor[g])] =
                  [@ EXCEPT !.read = entries[Top(g).t].actual,
                             !.pc = "store"]]
    /\ UNCHANGED <<scope, entries, current, temp, patched, reports, calls, last,
                   torn, phase>>

\* lines 303-311: the lookup in m.entries, which ends the goroutine with
\* Fatalf for an identity that is no key, and the read of entry.actual++
Load(g) ==
    /\ At(g, "load")
    /\ LET t == Top(g).t
       IN IF entries[t].found
          THEN /\ gor' = [gor EXCEPT ![g][Len(gor[g])] =
                             [@ EXCEPT !.read = entries[t].actual,
                                        !.pc = "store"]]
               /\ UNCHANGED reports
          ELSE /\ gor' = Goexit(g)
               /\ reports' = reports \o
                     MakeFunc(t, FuncType[t], entries[t], <<>>).reps
    /\ UNCHANGED <<scope, entries, current, temp, patched, calls, last, torn,
                   phase, locker>>

\* line 311, entry.actual++: the write
Store(g) ==
    /\ At(g, "store")
    /\ IF phase = "test"
       THEN /\ entries' = [entries EXCEPT ![Top(g).t].actual = Top(g).read + 1]
            /\ UNCHANGED torn
       ELSE /\ torn' = [torn EXCEPT ![Top(g).t].actual = Top(g).read + 1]
            /\ UNCHANGED entries
    /\ gor' = Goto(g, "body")
    /\ UNCHANGED <<scope, current, temp, patched, reports, calls, last, phase,
                   locker>>

\* lines 312-336: what makeFunc does with entry.actual as it finds it after
\* the increment, up to its first side effect.  The side effect of the
\* expectation runs with no lock held: it returns, or invokes a patched
\* target, or goes on to m.Mock.
Body(g) ==
    /\ At(g, "body")
    /\ LET t == Top(g).t
           out == MakeFunc(t, FuncType[t],
                           [Held[t] EXCEPT !.actual = @ - 1], <<>>)
           effect == IF out.idx = 0 \/ t = "bar" THEN "plain" ELSE scope
           nested == IF scope = "same" THEN "foo" ELSE "bar"
           numbered == [gor EXCEPT ![g][Len(gor[g])] =
                           [@ EXCEPT !.num = out.call, !.idx = out.idx,
                                      !.pc = "return"]]
       IN /\ IF phase = "test"
             THEN /\ entries' = [entries EXCEPT ![t] = out.entry]
                  /\ UNCHANGED torn
             ELSE /\ torn' = [torn EXCEPT ![t] = out.entry]
                  /\ UNCHANGED entries
          /\ reports' = reports \o out.reps
          /\ IF effect \in {"same", "other"}
             THEN /\ gor' = [numbered EXCEPT ![g] = Append(@, Frame(nested, "load"))]
                  /\ calls' = [calls EXCEPT ![nested] = @ + 1]
             ELSE /\ gor' = IF effect = "setup"
                            THEN [numbered EXCEPT ![g][Len(gor[g])].pc = "lock"]
                            ELSE numbered
                  /\ UNCHANGED calls
    /\ UNCHANGED <<scope, current, temp, patched, last, phase, locker>>

\* Mock line 403: m.locker.Lock() waits until the mutex is unlocked
Lock(g) ==
    /\ At(g, "lock")
    /\ locker = Unlocked
    /\ locker' = g
    /\ gor' = Goto(g, "setup")
    /\ UNCHANGED <<scope, entries, current, temp, patched, reports, calls, last,
                   torn, phase>>

\* Mock lines 405-411: setup and patches.ApplyCore, with the lock held
GoSetup(g) ==
    /\ At(g, "setup")
    /\ LET b == Setup("bar", FALSE)
       IN /\ entries' = b.entries
          /\ current' = b.current
          /\ temp' = b.temp
          /\ reports' = reports \o b.reps
          /\ patched' = IF HasFatal(b.reps) THEN patched
                        ELSE patched \cup {"bar"}
          /\ gor' = Goto(g, IF HasFatal(b.reps) THEN "exit" ELSE "unlock")
    /\ UNCHANGED <<scope, calls, last, torn, phase, locker>>

\* Mock line 404: the deferred m.locker.Unlock(), at the return of Mock and
\* at the Goexit of Fatalf
Unlock(g) ==
    /\ At(g, "unlock") \/ At(g, "exit")
    /\ locker' = Unlocked
    /\ gor' = IF At(g, "exit") THEN Goexit(g) ELSE Goto(g, "times")
    /\ UNCHANGED <<scope, entries, current, temp, patched, reports, calls, last,
                   torn, phase>>

\* Times(1) on the session that is open, with no lock held, lines 576-597:
\* the checks and m.current.expect += count
GoExpect(g) ==
    /\ At(g, "times")
    /\ LET b == TimesOp(1)
       IN IF HasFatal(b.reps)
          THEN /\ reports' = reports \o b.reps
               /\ gor' = Goexit(g)
               /\ UNCHANGED entries
          ELSE /\ entries' = [entries EXCEPT ![current].expect = @ + 1]
               /\ gor' = Goto(g, "append")
               /\ UNCHANGED reports
    /\ UNCHANGED <<scope, current, temp, patched, calls, last, torn, phase,
                   locker>>

\* Times(1), lines 598-603: the append to m.current.mocks and the end of
\* the session
GoAppend(g) ==
    /\ At(g, "append")
    /\ entries' = [entries EXCEPT ![current].mocks = Append(@, temp.mock)]
    /\ current' = NilCurrent
    /\ temp' = NilTemp
    /\ gor' = Goto(g, "return")
    /\ UNCHANGED <<scope, patched, reports, calls, last, torn, phase, locker>>

\* lines 333-343 after the first side effect, and the return of the
\* function makeFunc built: the side effects that follow and
\* constructReturns get entry.actual as it is by then
Return(g) ==
    /\ At(g, "return")
    /\ gor' = IF Len(gor[g]) = 1
              THEN [gor EXCEPT ![g][1] =
                       [@ EXCEPT !.pc = "done",
                                  !.rest = IF Top(g).idx = 0
                                           THEN Top(g).num
                                           ELSE Held[Top(g).t].actual]]
              ELSE Pop(g)
    /\ UNCHANGED <<scope, entries, current, temp, patched, reports, calls, last,
                   torn, phase, locker>>

\* verifyAll lines 608-621, on the goroutine of the test: the reports, and
\* the new map in the place of m.entries
ConcVerify ==
    /\ scope = "teardown"
    /\ phase = "test"
    /\ \E order \in Orders({t \in Targets : entries[t].found}) :
          reports' = reports \o VerifyReps(order)
    /\ torn' = entries
    /\ entries' = [t \in Targets |-> NoEntry]
    /\ phase' = "cleared"
    /\ UNCHANGED <<scope, current, temp, patched, calls, last, locker, gor>>

\* verifyAll line 622: m.patches.Reset()
ConcReset ==
    /\ phase = "cleared"
    /\ patched' = {}
    /\ phase' = "done"
    /\ UNCHANGED <<scope, entries, current, temp, reports, calls, last, torn,
                   locker, gor>>

\* a step goroutine g takes once it is inside a call
Run(g) ==
    \/ Load(g)
    \/ Store(g)
    \/ Body(g)
    \/ Lock(g)
    \/ GoSetup(g)
    \/ Unlock(g)
    \/ GoExpect(g)
    \/ GoAppend(g)
    \/ Return(g)

ConcNext ==
    \/ \E g \in Goroutines : GoCall(g)
    \/ \E g \in Goroutines : Load(g)
    \/ \E g \in Goroutines : Store(g)
    \/ \E g \in Goroutines : Body(g)
    \/ \E g \in Goroutines : Lock(g)
    \/ \E g \in Goroutines : GoSetup(g)
    \/ \E g \in Goroutines : Unlock(g)
    \/ \E g \in Goroutines : GoExpect(g)
    \/ \E g \in Goroutines : GoAppend(g)
    \/ \E g \in Goroutines : Return(g)
    \/ ConcVerify
    \/ ConcReset

\* the Go scheduler lets every goroutine that can run take its next step
SpecConc ==
    ConcInit /\ [][ConcNext]_vars /\ \A g \in Goroutines : WF_vars(Run(g))

----------------------------------------------------------------------------
(* Properties.                                                             *)

\* the reports made by the most recent operation
LastReps == SubSeq(reports, Len(reports) - last.nrep + 1, Len(reports))

\* the reports verifyAll made
TeardownReps == IF phase = "done" THEN LastReps ELSE <<>>

\* the positions of reps that hold a report of one of kinds about target t
About(reps, t, kinds) ==
    {i \in DOMAIN reps : reps[i].name = t /\ reps[i].kind \in kinds}

\* the values a call returns for the registered returns of funcType
Registered(funcType, returns) ==
    [i \in 1..Len(returns) |->
        IF returns[i] = Nil THEN Zero(funcType.out[i]) ELSE returns[i]]

\* the most recent operation was a dispatched call of target t
Called(t) == last.op = "call" /\ last.t = t /\ entries[t].found

\* C1: for a Mock target, the K-th dispatched call with K within the
\* expected count uses the expectation at position K of the list (K-1 of
\* the slice) whatever session registered it, and returns the values
\* registered on that expectation (nil standing for the zero value) when
\* they are as many as the results and nothing panicked.
C1_KthCallUsesKthExpectation ==
    \A t \in Targets :
        (Called(t) /\ ~entries[t].stub /\ calls[t] <= entries[t].expect) =>
            /\ last.call = calls[t]
            /\ last.idx = calls[t]
            /\ ~last.over
            /\ calls[t] <= Len(entries[t].mocks)
            /\ LET mock == entries[t].mocks[calls[t]]
               IN (last.panic = ""
                      /\ Len(mock.returns) = Len(FuncType[t].out)) =>
                     /\ last.end = "returned"
                     /\ last.rets = Registered(FuncType[t], mock.returns)

\* the second call of foo returns what the second session registered, which
\* differs from what the first session registered
C1_Witness ==
    /\ Called("foo") /\ ~entries["foo"].stub
    /\ calls["foo"] = 2 /\ entries["foo"].expect = 2
    /\ entries["foo"].mocks[1].returns = <<IntV(1)>>
    /\ entries["foo"].mocks[2].returns = <<IntV(2)>>
    /\ last.rets = <<IntV(2)>>

\* C2 as the specification states it: at teardown a target whose finalized
\* counts total n and that was invoked n times has actualCount n and gets no
\* report from verifyAll, Mock or Stub, however the sessions and the calls
\* interleave.
C2_AsStated ==
    phase = "done" =>
        \A t \in Targets :
            (torn[t].found /\ ~torn[t].nocall /\ torn[t].expect = calls[t]) =>
                /\ torn[t].actual = calls[t]
                /\ About(TeardownReps, t, {"calls"}) = {}

\* C2: at teardown a target never finalized with NotCalled whose finalized
\* counts total n and that was invoked n times gets no report from
\* verifyAll; its actualCount is n when it is a Mock target, and at most n
\* when it is a Stub target (a call made while actualCount had reached the
\* number of expectations registered so far does not count).
C2_CountsAgreeAtTeardown ==
    phase = "done" =>
        \A t \in Targets :
            (torn[t].found /\ ~torn[t].nocall /\ torn[t].expect = calls[t]) =>
                /\ ~torn[t].stub => torn[t].actual = calls[t]
                /\ torn[t].stub => torn[t].actual <= calls[t]
                /\ About(TeardownReps, t, {"calls"}) = {}

\* a Mock target called twice, once after a call had gone beyond the counts
\* registered till then, and torn down with expect = actual = 2
C2_Witness ==
    /\ phase = "done"
    /\ \E t \in Targets :
        /\ torn[t].found /\ ~torn[t].stub /\ ~torn[t].nocall
        /\ torn[t].expect = 2 /\ calls[t] = 2 /\ torn[t].actual = 2
        /\ torn[t].verified

\* C3: verifyAll reports a count mismatch for an entry exactly once, with
\* the name, expect and actual of the entry, if and only if the entry is
\* not a stub, is not verified and has expect # actual; it reports nothing
\* else.
C3_TeardownReportsExactlyTheMismatches ==
    phase = "done" =>
        /\ \A i \in DOMAIN TeardownReps : TeardownReps[i].kind = "calls"
        /\ \A t \in Targets :
            LET about == About(TeardownReps, t, {"calls"})
            IN IF /\ torn[t].found /\ ~torn[t].stub /\ ~torn[t].verified
                  /\ torn[t].expect # torn[t].actual
               THEN /\ Cardinality(about) = 1
                    /\ \A i \in about :
                          TeardownReps[i] =
                              CallsRep("verifyAll", t, torn[t].expect,
                                       torn[t].actual)
               ELSE about = {}

\* a Mock target registered Once and never called: one report, expect 1 and
\* actual 0
C3_Witness ==
    /\ phase = "done"
    /\ torn["foo"].found /\ ~torn["foo"].stub
    /\ torn["foo"].expect = 1 /\ calls["foo"] = 0
    /\ TeardownReps = <<CallsRep("verifyAll", "foo", 1, 0)>>

\* C4 as the specification states it: a target finalized with NotCalled
\* (a target of Mock: Stub returns no Expecter) and invoked one or more
\* times gets, over the whole test, exactly one
\* count report, and that report carries expect 0 and actual 1.
C4_AsStated ==
    phase = "done" =>
        \A t \in Targets :
            (torn[t].found /\ ~torn[t].stub /\ torn[t].nocall
                /\ calls[t] >= 1) =>
                LET about == About(reports, t, {"calls"})
                IN /\ Cardinality(about) = 1
                   /\ \A i \in about :
                         reports[i].expect = 0 /\ reports[i].actual = 1

\* C4: a Mock target finalized with NotCalled and invoked exactly once gets,
\* over the whole test, exactly one count report, carrying expect 0 and
\* actual 1; and every invocation of a Mock target made after NotCalled
\* finalized it makes exactly one report at call time, carrying expect 0 and
\* the number of invocations so far as actual, so that a target invoked
\* again gets a further report.
C4_NotCalledTargetInvoked ==
    /\ phase = "done" =>
        \A t \in Targets :
            (torn[t].found /\ ~torn[t].stub /\ torn[t].nocall
                /\ calls[t] = 1) =>
                LET about == About(reports, t, {"calls"})
                IN /\ Cardinality(about) = 1
                   /\ \A i \in about :
                         reports[i].expect = 0 /\ reports[i].actual = 1
    /\ \A t \in Targets :
        (Called(t) /\ ~entries[t].stub /\ entries[t].nocall) =>
            /\ LastReps = <<CallsRep("makeFunc", t, 0, calls[t])>>
            /\ entries[t].verified

\* foo, a Mock target finalized with NotCalled, was invoked twice and has
\* the reports (0, 1) and (0, 2), none of them from verifyAll
C4_Witness ==
    /\ phase = "done"
    /\ torn["foo"].found /\ ~torn["foo"].stub /\ torn["foo"].nocall
    /\ calls["foo"] = 2
    /\ reports = <<CallsRep("makeFunc", "foo", 0, 1),
                   CallsRep("makeFunc", "foo", 0, 2)>>

\* the general callbacks of mock that are for the call numbered n
Running(mock, n) ==
    {cb \in DOMAIN mock.callbacks :
        /\ mock.callbacks[cb].k = "general"
        /\ mock.callbacks[cb].callIndex \in {0, n}}

\* no general callback of mock up to position cb panics
NonePanics(mock, cb) ==
    \A b \in 1..cb :
        mock.callbacks[b].k = "general" => ~mock.callbacks[b].panics

\* the callbacks of mock up to position cb are general ones
GeneralUpTo(mock, cb) ==
    \A b \in 1..cb : mock.callbacks[b].k = "general"

\* C5: for a Stub target with at least one finalized expectation, a call
\* beyond the registered count uses the last expectation of the list: it
\* runs the side effects of that expectation and returns its values, makes
\* no count report, and verifyAll makes no count report for the target.
C5_StubReusesLastExpectation ==
    /\ \A t \in Targets :
        (Called(t) /\ entries[t].stub /\ ~entries[t].nocall /\ last.over
            /\ Len(entries[t].mocks) >= 1) =>
            LET n == Len(entries[t].mocks)
                mock == entries[t].mocks[n]
            IN /\ last.idx = n
               /\ About(LastReps, t, {"calls"}) = {}
               /\ \A cb \in Running(mock, n) :
                     (NonePanics(mock, cb) /\ GeneralUpTo(mock, cb)) =>
                         \E i \in DOMAIN last.fired :
                             last.fired[i] = Fired(cb, n, 0, Nil)
               /\ \A i \in DOMAIN last.fired :
                     mock.callbacks[last.fired[i].cb].k = "general" =>
                         /\ last.fired[i].cb \in Running(mock, n)
                         /\ NonePanics(mock, last.fired[i].cb)
               /\ (last.panic = ""
                      /\ Len(mock.returns) = Len(FuncType[t].out)) =>
                     /\ LastReps = <<>>
                     /\ last.end = "returned"
                     /\ last.rets = Registered(FuncType[t], mock.returns)
    /\ phase = "done" =>
        \A t \in Targets :
            (torn[t].found /\ torn[t].stub /\ Len(torn[t].mocks) >= 1
                /\ calls[t] > torn[t].expect) =>
                About(TeardownReps, t, {"calls"}) = {}

\* the third call of the stub foo, registered with two expectations that
\* differ, returns what the second has
C5_Witness ==
    /\ Called("foo") /\ entries["foo"].stub /\ last.over
    /\ calls["foo"] = 3 /\ Len(entries["foo"].mocks) = 2
    /\ entries["foo"].mocks[1].returns = <<IntV(1)>>
    /\ entries["foo"].mocks[2].returns = <<IntV(2)>>
    /\ last.idx = 2 /\ last.rets = <<IntV(2)>> /\ LastReps = <<>>

\* whether target t is a stub, in m.entries or as verifyAll found it
IsStub(t) ==
    IF phase = "done" THEN torn[t].found /\ torn[t].stub
    ELSE entries[t].found /\ entries[t].stub

\* C6: a Stub target never gets a count report, an argument-count report
\* or a value report, from the dispatcher or from verifyAll, however often
\* it is called and whatever the arguments.
C6_StubNeverReported ==
    \A i \in DOMAIN reports :
        reports[i].kind
            \in {"calls", "nparams", "nvariadic", "param", "matchFunc"} =>
            ~IsStub(reports[i].name)

\* the stub set, registered with Expects(1), is called with 0 and nothing
\* is reported
C6_Witness ==
    /\ Called("set") /\ entries["set"].stub /\ ~last.over
    /\ entries["set"].mocks[last.idx].parameters = <<IntV(1)>>
    /\ last.args = <<RV("int", 0)>>
    /\ reports = <<>>

\* C7: for a non-Stub target, a call that takes actual beyond expect or
\* beyond the number of expectations makes exactly one report, the count
\* violation with expect and actual, sets verified, checks no parameter,
\* runs no side effect and returns the zero value of every declared result.
C7_MockOverflowReturnsZeros ==
    \A t \in Targets :
        (Called(t) /\ ~entries[t].stub
            /\ (entries[t].actual > entries[t].expect
                   \/ entries[t].actual > Len(entries[t].mocks))) =>
            /\ last.over
            /\ LastReps = <<CallsRep("makeFunc", t, entries[t].expect,
                                     entries[t].actual)>>
            /\ entries[t].actual = calls[t]
            /\ entries[t].verified
            /\ last.idx = 0
            /\ last.fired = <<>>
            /\ last.panic = ""
            /\ last.end = "returned"
            /\ Len(last.rets) = Len(FuncType[t].out)
            /\ \A i \in DOMAIN last.rets :
                  last.rets[i] = Zero(FuncType[t].out[i])

\* the second call of the Mock target foo, registered Once with a side
\* effect and the return value 1, runs nothing and returns 0
C7_Witness ==
    /\ Called("foo") /\ ~entries["foo"].stub
    /\ entries["foo"].expect = 1 /\ calls["foo"] = 2
    /\ entries["foo"].mocks[1].callbacks # <<>>
    /\ entries["foo"].mocks[1].returns = <<IntV(1)>>
    /\ last.fired = <<>>
    /\ last.rets = <<IntV(0)>>

\* the call was dispatched to an expectation of the Mock target t that has
\* as many expected parameters as the non-variadic t has parameters
Checked(t) ==
    /\ Called(t) /\ ~entries[t].stub /\ ~last.over /\ last.idx >= 1
    /\ ~FuncType[t].variadic
    /\ Len(entries[t].mocks[last.idx].parameters) = Len(last.args)

\* the reports of one of kinds the most recent call made about position i
AtPosition(i, kinds) ==
    {j \in DOMAIN LastReps :
        LastReps[j].kind \in kinds /\ LastReps[j].index = i}

\* C8 as the specification states it: whatever the number of results of the
\* target, a panic raised while a side effect runs or a parameter is
\* matched is reported exactly once and does not reach the caller, and the
\* call returns the zero value of every declared result.
C8_AsStated ==
    \A t \in Targets :
        (Called(t) /\ last.panic \in {"callback", "compare"}) =>
            /\ Cardinality(About(LastReps, t, {"panic"})) = 1
            /\ last.end = "returned"
            /\ Len(last.rets) = Len(FuncType[t].out)
            /\ \A i \in DOMAIN last.rets :
                  last.rets[i] = Zero(FuncType[t].out[i])

\* matchFunc returns false on value x
ReturnsFalse(param, x) ==
    ~MatchFuncs[param.v].panics /\ x \notin MatchFuncs[param.v].accept

\* C9 as the specification states it: in Mock mode a position expecting
\* Anything() gets no report whatever the actual value, and a position
\* expecting Matches(pred) gets a mismatch report if and only if
\* pred(actual) is false.
C9_AsStated ==
    \A t \in Targets :
        Checked(t) =>
            \A i \in DOMAIN last.args :
                LET param == entries[t].mocks[last.idx].parameters[i]
                    actual == Interface(last.args[i])
                IN /\ param = Anything =>
                        AtPosition(i, {"param", "matchFunc"}) = {}
                   /\ param.k = "matching" =>
                        (AtPosition(i, {"matchFunc"}) # {}
                            <=> ReturnsFalse(param, actual))

\* the actual argument is nil or the zero value of its type
IsZeroValue(actual) ==
    CASE actual.typ = "iface" -> actual.val = Nil
      [] OTHER                -> actual.val = 0

\* C10 as the specification states it: in Mock mode a position expecting
\* the literal nil gets no report when the actual argument is nil or the
\* zero value of its type and exactly one parameter-mismatch report
\* otherwise, whatever the kind of the parameter.
C10_AsStated ==
    \A t \in Targets :
        Checked(t) =>
            \A i \in DOMAIN last.args :
                entries[t].mocks[last.idx].parameters[i] = Nil =>
                    Cardinality(AtPosition(i, {"param"}))
                        = IF IsZeroValue(last.args[i]) THEN 0 ELSE 1

\* the call was dispatched to an expectation of the variadic Mock target t
VariadicChecked(t) ==
    /\ Called(t) /\ ~entries[t].stub /\ ~last.over /\ last.idx >= 1
    /\ FuncType[t].variadic

\* the number of fixed parameters of target t
Fixed(t) == Len(FuncType[t].in) - 1

\* the fixed positions of the most recent call of t whose expected literal
\* differs from the actual argument
FixedMismatches(t, expects) ==
    {i \in 1..Fixed(t) :
        /\ i <= Len(expects)
        /\ ~IsParameter(expects[i])
        /\ ~DeepEqual(Interface(last.args[i]), expects[i])}

\* the elements of the variadic slice of the most recent call of t whose
\* expected literal differs from the element
ElementMismatches(t, expects) ==
    LET items == last.args[Len(last.args)].val
    IN {e \in DOMAIN items :
           /\ Fixed(t) + e <= Len(expects)
           /\ ~IsParameter(expects[Fixed(t) + e])
           /\ ~DeepEqual(IntV(items[e]), expects[Fixed(t) + e])}

C12_AsStated ==
    \A t \in Targets :
        LET expects == entries[t].mocks[last.idx].parameters
            items == last.args[Len(last.args)].val
            k == Fixed(t)
        IN (VariadicChecked(t) /\ Len(expects) - k # Len(items)) =>
              /\ Cardinality(About(LastReps, t, {"nvariadic"})) = 1
              /\ \A j \in About(LastReps, t, {"nvariadic"}) :
                    /\ LastReps[j].expect = Len(expects) - k
                    /\ LastReps[j].actual = Len(items)
              /\ \A j \in About(LastReps, t, {"param", "matchFunc"}) :
                    LastReps[j].index <= k

\* the runs of the callback at position cb made by the most recent call
Runs(cb) == {i \in DOMAIN last.fired : last.fired[i].cb = cb}

\* callIndex c applies to the n-th invocation of a target
Applies(c, n) == c = 0 \/ c = n

\* C13 as the specification states it: a general side effect with callIndex
\* k > 0 attached to an expectation fires on a dispatched call if and only
\* if the call uses the expectation and is the k-th invocation of the
\* target, Mock or Stub, invocations beyond the registered count included;
\* with callIndex 0 it fires on every call that uses the expectation.
C13_AsStated ==
    \A t \in Targets :
        (Called(t) /\ last.idx >= 1 /\ last.panic = "") =>
            \A cb \in DOMAIN entries[t].mocks[last.idx].callbacks :
                LET c == entries[t].mocks[last.idx].callbacks[cb]
                IN c.k = "general" =>
                      (Runs(cb) # {} <=> Applies(c.callIndex, calls[t]))

\* C14 as the specification states it: a parameterized side effect with
\* callIndex c and paramIndex p fires at most once per dispatched call; it
\* fires if and only if c applies to the call and p is the position of an
\* actual argument, and its function receives the argument at position p.
C14_AsStated ==
    \A t \in Targets :
        (Called(t) /\ last.idx >= 1
            /\ last.panic \notin {"index", "compare"}) =>
            \A cb \in DOMAIN entries[t].mocks[last.idx].callbacks :
                LET c == entries[t].mocks[last.idx].callbacks[cb]
                IN c.k = "param" =>
                      /\ Cardinality(Runs(cb)) <= 1
                      /\ Runs(cb) # {} <=>
                            /\ Applies(c.callIndex, calls[t])
                            /\ c.paramIndex \in 1..Len(last.args)
                      /\ \A i \in Runs(cb) :
                            /\ last.fired[i].param = c.paramIndex
                            /\ last.fired[i].val
                                  = Interface(last.args[c.paramIndex])

\* C15: a call that reaches return synthesis reports a return-count error
\* if and only if the number of declared results differs from the number of
\* stored returns, carrying both numbers, and then returns the zero value
\* of every result; otherwise result i is the stored value, or the zero
\* value of the declared type when the stored value is nil.
C15_ReturnSynthesis ==
    \A t \in Targets :
        (Called(t) /\ last.idx >= 1 /\ last.panic = "") =>
            LET returns == entries[t].mocks[last.idx].returns
                out == FuncType[t].out
                errs == About(LastReps, t, {"nreturns"})
            IN /\ last.end = "returned"
               /\ Len(last.rets) = Len(out)
               /\ IF Len(out) # Len(returns)
                  THEN /\ Cardinality(errs) = 1
                       /\ \A j \in errs :
                             /\ LastReps[j].expect = Len(out)
                             /\ LastReps[j].actual = Len(returns)
                             /\ LastReps[j].call = last.call
                       /\ \A i \in DOMAIN last.rets :
                             last.rets[i] = Zero(out[i])
                  ELSE /\ errs = {}
                       /\ \A i \in DOMAIN last.rets :
                             last.rets[i] = IF returns[i] = Nil
                                            THEN Zero(out[i])
                                            ELSE returns[i]

\* foo, a func() int registered with Returns(nil), returns 0 and nothing is
\* reported
C15_Witness ==
    /\ Called("foo") /\ last.idx >= 1 /\ last.panic = ""
    /\ entries["foo"].mocks[last.idx].returns = <<Nil>>
    /\ last.rets = <<IntV(0)>>
    /\ LastReps = <<>>

\* C16: a dispatcher invocation for an identity that is no key of
\* m.entries makes one report, the fatal "never setup", returns no value
\* (Fatalf ends the goroutine), creates no funcEntry and changes no count
\* and no session.
C16_UnregisteredCallIsFatal ==
    [][\A t \in Targets :
          (~entries[t].found /\ calls'[t] = calls[t] + 1) =>
              /\ reports' = reports \o
                    <<Rep("neversetup", "makeFunc", t, 0, 0, 0, 0, Nil, Nil)>>
              /\ reports'[Len(reports')].fatal
              /\ last'.rets = <<>> /\ last'.end = "exited"
              /\ entries' = entries
              /\ current' = current /\ temp' = temp
              /\ phase' = "failed"]_vars

\* foo was dispatched without a funcEntry: the fatal report is the last one
C16_Witness ==
    /\ last.op = "call" /\ last.t = "foo" /\ last.end = "exited"
    /\ ~entries["foo"].found
    /\ calls["foo"] = 1
    /\ phase = "failed"
    /\ reports[Len(reports)].kind = "neversetup"

\* the step is a call of Mock or of Stub
SetupStep == last'.op \in {"Mock", "Stub"}

\* the step made exactly one report, the fatal one of kind about name, and
\* left the registry, the session and the patches as they were
FatalAndUnchanged(kind, by, name) ==
    /\ reports' = reports \o <<Usage(kind, by, name, 0)>>
    /\ reports'[Len(reports')].fatal
    /\ entries' = entries
    /\ current' = current /\ temp' = temp
    /\ patched' = patched
    /\ phase' = "failed"

\* C17: Mock or Stub, for any target, called while a builder session is
\* open reports the fatal "former setup was incomplete" and leaves the
\* registry as it was: no funcEntry is created and the open session, its
\* target and its mockEntry, stays.
C17_SetupWhileSessionOpen ==
    [][(SetupStep /\ (current # NilCurrent \/ ~temp.nil)) =>
          FatalAndUnchanged("incomplete", "setup", last'.t)]_vars

\* Mock of a target that has no funcEntry failed while the session of
\* another target was open, and that session is still open
C17_Witness ==
    /\ last.op = "Mock" /\ phase = "failed"
    /\ reports[Len(reports)].kind = "incomplete"
    /\ SessionOpen /\ current # last.t
    /\ ~entries[last.t].found

\* C18: Mock of a target set up as a stub, Stub of a target set up as a
\* mock, and Mock or Stub of a target finalized with NotCalled report a
\* fatal error, open no session and leave the funcEntry as it was.
C18_SetupAgainstFormerSetup ==
    [][\A t \in Targets :
          (SetupStep /\ last'.t = t /\ current = NilCurrent /\ temp.nil
              /\ entries[t].found
              /\ (entries[t].stub # (last'.op = "Stub") \/ entries[t].nocall))
          => /\ FatalAndUnchanged(
                    IF entries[t].stub # (last'.op = "Stub")
                    THEN IF entries[t].stub THEN "wasStub" ELSE "wasMock"
                    ELSE "wasNoCall",
                    "setup", t)
             /\ current' = NilCurrent /\ temp'.nil]_vars

\* Mock of a target finalized with NotCalled failed, and no session is open
C18_Witness ==
    /\ last.op = "Mock" /\ phase = "failed"
    /\ reports[Len(reports)].kind = "wasNoCall"
    /\ entries[last.t].nocall /\ ~entries[last.t].stub
    /\ ~SessionOpen

\* the step is a call of Expects, Returns, SideEffects, Times, Once, Twice
\* or NotCalled: not a dispatched call, not verifyAll, not Mock, not Stub
OtherBuilderStep ==
    /\ calls' = calls
    /\ phase' # "done"
    /\ ~SetupStep

\* C19: with no builder session open, Expects, Returns, SideEffects, Times,
\* Once, Twice and NotCalled each report the fatal "unexpected call" and
\* change nothing of the registry: no entry, count, expectation or session.
C19_BuilderWithoutSession ==
    [][(OtherBuilderStep /\ (current = NilCurrent \/ temp.nil)) =>
          /\ last'.op \in {"Expects", "Returns", "SideEffects", "Times",
                           "NotCalled"}
          /\ FatalAndUnchanged("nosetup", last'.op, "")]_vars

\* Returns failed with no session open
C19_Witness ==
    /\ last.op = "Returns" /\ phase = "failed"
    /\ reports[Len(reports)].kind = "nosetup"
    /\ reports[Len(reports)].by = "Returns"
    /\ ~SessionOpen

\* the step is Times(n), Once (n = 1) or Twice (n = 2) with a session open
\* on t
TimesStep(t, n) ==
    /\ current = t /\ ~temp.nil
    /\ calls' = calls
    /\ last'.op = "Times" /\ last'.args = <<IntV(n)>>

\* C20: with a session open on t, Times(n) for n > 0, and Once and Twice
\* as Times(1) and Times(2), appends exactly n entries equal to the open
\* expectation to the end of the mocks of t, adds n to its expect, leaves
\* its actual and every other entry as they were, and closes the session.
C20_TimesAppendsCopies ==
    [][\A t \in Targets : \A n \in 1..(MaxExpect + 1) :
          TimesStep(t, n) =>
              /\ entries'[t].mocks =
                     entries[t].mocks \o [i \in 1..n |-> temp.mock]
              /\ entries'[t].expect = entries[t].expect + n
              /\ entries'[t].actual = entries[t].actual
              /\ entries'[t] = [entries[t] EXCEPT !.mocks = entries'[t].mocks,
                                                  !.expect = entries'[t].expect]
              /\ \A u \in Targets \ {t} : entries'[u] = entries[u]
              /\ current' = NilCurrent /\ temp'.nil
              /\ reports' = reports /\ phase' = phase]_vars

\* Times(2) or Twice has just added two equal expectations, with a return
\* value, to a target
C20_Witness ==
    /\ last.op = "Times" /\ last.args = <<IntV(2)>>
    /\ last.t \in Targets /\ ~SessionOpen
    /\ entries[last.t].expect = 2 /\ Len(entries[last.t].mocks) = 2
    /\ entries[last.t].mocks[1] = entries[last.t].mocks[2]
    /\ entries[last.t].mocks[2].returns # <<>>

\* C21: with a session open on t, Times(n) for n < 0 reports the fatal
\* "negative" error with the count, and for n = 0 the fatal "zero times, try
\* NotCalled" error; the failing call adds nothing to t: its expect and its
\* mocks, and the rest of the registry, are as they were.
C21_TimesRejectsNonPositive ==
    [][\A t \in Targets : \A n \in {-1, 0} :
          TimesStep(t, n) =>
              /\ reports' = reports \o
                    <<Usage(IF n < 0 THEN "negative" ELSE "zero", "Times", t, n)>>
              /\ reports'[Len(reports')].fatal
              /\ phase' = "failed"
              /\ entries'[t].expect = entries[t].expect
              /\ entries'[t].mocks = entries[t].mocks
              /\ entries' = entries]_vars

\* Times(0) has just failed on a target that has an expectation already
C21_Witness ==
    /\ last.op = "Times" /\ last.args = <<IntV(0)>>
    /\ phase = "failed"
    /\ reports[Len(reports)].kind = "zero"
    /\ current = last.t /\ entries[last.t].expect = 1
    /\ Len(entries[last.t].mocks) = 1

\* the step is NotCalled with a session open on t
NotCalledStep(t) ==
    /\ current = t /\ ~temp.nil
    /\ calls' = calls
    /\ last'.op = "NotCalled"

\* C22: NotCalled on a session open on t sets the expect of t to 0 and its
\* mocks to exactly one empty mockEntry, whatever former sessions registered,
\* leaves its actual as it was and closes the session; and every later Mock
\* or Stub of t reports a fatal error and opens no session on t.
C22_NotCalledFinalizes ==
    [][\A t \in Targets :
          /\ NotCalledStep(t) =>
                /\ entries'[t].expect = 0
                /\ entries'[t].mocks = <<EmptyMock>>
                /\ entries'[t].actual = entries[t].actual
                /\ entries'[t].nocall
                /\ \A u \in Targets \ {t} : entries'[u] = entries[u]
                /\ current' = NilCurrent /\ temp'.nil
                /\ reports' = reports /\ phase' = phase
          /\ (SetupStep /\ last'.t = t /\ entries[t].nocall) =>
                /\ Len(reports') = Len(reports) + 1
                /\ reports'[Len(reports')].fatal
                /\ reports'[Len(reports')].by = "setup"
                /\ phase' = "failed"
                /\ entries' = entries
                /\ current' = current /\ current' # t]_vars

\* NotCalled has just finalized a target that was called once before
C22_Witness ==
    /\ last.op = "NotCalled" /\ last.t \in Targets /\ ~SessionOpen
    /\ entries[last.t].nocall
    /\ entries[last.t].actual = 1 /\ calls[last.t] = 1
    /\ entries[last.t].expect = 0
    /\ entries[last.t].mocks = <<EmptyMock>>

\* C23 as the specification states it: the dispatcher is installed at most
\* once per target, however many sessions are opened for it (no Mock or Stub
\* calls patches.ApplyCore for a target that is patched already), and all
\* patches are reverted once, at teardown.
C23_AsStated ==
    [][/\ last'.install => last'.t \notin patched
       /\ phase' = "done" => (phase # "done" /\ patched' = {})
       /\ phase' # "done" => patched \subseteq patched']_vars

\* C23: every Mock and every Stub that opens a session calls
\* patches.ApplyCore for its target, patched before or not, so once for each
\* session opened for the target; one that ends in Fatalf does not, and no
\* other operation does.  patches.Reset is called once, by verifyAll, and
\* leaves no target patched.
C23_InstallPerSession ==
    [][/\ SetupStep =>
             /\ last'.install <=> phase' # "failed"
             /\ last'.install <=> (current' = last'.t /\ current = NilCurrent)
             /\ patched' = IF last'.install THEN patched \cup {last'.t}
                           ELSE patched
       /\ ~SetupStep => ~last'.install
       /\ (~SetupStep /\ phase' # "done") => patched' = patched
       /\ phase' = "done" => (phase # "done" /\ patched' = {})]_vars

\* Mock has just opened a second session for a target, and called
\* patches.ApplyCore for it a second time
C23_Witness ==
    /\ last.op = "Mock" /\ last.install
    /\ SessionOpen /\ current = last.t
    /\ entries[last.t].expect >= 1
    /\ last.t \in patched

\* the positions at which the next step of a goroutine reads or writes
\* m.entries or a field of a funcEntry
Accessing == {"load", "store", "body", "setup", "times", "append"}

\* C24 as the specification states it: every read and write of m.entries
\* and of the expect, actual, mocks and verified of a funcEntry, by setup,
\* Times, NotCalled, the dispatcher or verifyAll, is made by a goroutine
\* that holds m.locker.
C24_AsStated ==
    \A g \in Goroutines :
        (gor[g] # <<>> /\ Top(g).pc \in Accessing) => locker = g

\* the invocations of foo have all returned
AllReturned ==
    /\ phase = "test"
    /\ calls["foo"] >= 1
    /\ \A g \in Goroutines : gor[g] = <<>> \/ At(g, "done")

\* C25 as the specification states it: the increment of actual is atomic;
\* when k goroutines have invoked the Mock target foo at the same time and
\* all have returned, actual is k more than before, and the calls were
\* given call numbers that differ.
C25_AsStated ==
    (AllReturned /\ ~entries["foo"].stub) =>
        /\ entries["foo"].actual = calls["foo"]
        /\ \A g, h \in Goroutines :
              (g # h /\ At(g, "done") /\ At(h, "done")) =>
                  Top(g).num # Top(h).num

\* C26: every invocation of the dispatcher returns, unless its side effect
\* ended the goroutine with Fatalf: a side effect that invokes the same
\* target, invokes another patched target, or calls m.Mock never waits for
\* m.locker forever.  Each goroutine invokes the dispatcher once, so from
\* some point on every goroutine that has invoked it has returned from it
\* or has been ended by Fatalf; none stays inside it, waiting at Lock or
\* anywhere else.
C26_DispatcherReturns ==
    <>[](\A g \in Goroutines :
            gor[g] = <<>> \/ At(g, "done") \/ At(g, "exited"))

\* a side effect of foo has locked m.locker in m.Mock while the side effect
\* of another goroutine waits for it
C26_Witness ==
    \E g, h \in Goroutines :
        /\ g # h
        /\ locker = g /\ At(g, "setup") /\ Top(g).t = "foo"
        /\ At(h, "lock")

\* the call was dispatched to an expectation of the non-variadic Mock
\* target t that has more or fewer expected parameters than t has parameters
Miscounted(t) ==
    /\ Called(t) /\ ~entries[t].stub /\ ~last.over /\ last.idx >= 1
    /\ ~FuncType[t].variadic
    /\ Len(entries[t].mocks[last.idx].parameters) # Len(last.args)

\* C27: for a non-variadic Mock target, a call whose expectation has a
\* number of expected parameters other than the number of arguments makes
\* exactly one "invalid number of parameters" report, with both numbers, and
\* compares no position: it makes no value or matchFunc report and no
\* matchFunc runs (none panics).
C27_CountMismatchReportedOnce ==
    \A t \in Targets :
        Miscounted(t) =>
            /\ Cardinality(About(LastReps, t, {"nparams"})) = 1
            /\ \A j \in About(LastReps, t, {"nparams"}) :
                  /\ LastReps[j].expect =
                         Len(entries[t].mocks[last.idx].parameters)
                  /\ LastReps[j].actual = Len(last.args)
                  /\ LastReps[j].call = last.idx
            /\ About(LastReps, t, {"param", "matchFunc"}) = {}
            /\ last.panic \notin {"compare", "index"}

\* set was called with one argument under an expectation of two parameters,
\* the first a matchFunc that panics when it runs
C27_Witness ==
    /\ Miscounted("set")
    /\ entries["set"].mocks[last.idx].parameters = <<Matches(3), IntV(2)>>
    /\ Len(LastReps) = 1 /\ LastReps[1].kind = "nparams"
    /\ LastReps[1].expect = 2 /\ LastReps[1].actual = 1

\* the position i of the most recent call of t mismatches: its matchFunc
\* returns false, its expected nil meets an argument that is neither nil
\* nor a zero value, or its expected literal differs from the argument
Mismatches(t, i) ==
    LET expect == entries[t].mocks[last.idx].parameters[i]
        actual == last.args[i]
    IN CASE expect = Anything      -> FALSE
         [] expect.k = "matching"  -> ReturnsFalse(expect, Interface(actual))
         [] expect = Nil           -> ~IsZeroValue(actual)
         [] OTHER                  -> ~DeepEqual(Interface(actual), expect)

\* no function the test supplied for the expectation panics when it runs
NoUserPanic(t) ==
    LET mock == entries[t].mocks[last.idx]
    IN /\ \A i \in DOMAIN mock.parameters :
             mock.parameters[i].k = "matching" =>
                 ~MatchFuncs[mock.parameters[i].v].panics
       /\ \A cb \in DOMAIN mock.callbacks : ~mock.callbacks[cb].panics

\* C28 as the specification states it: for a call of a non-variadic Mock
\* target with as many arguments as expected parameters, every mismatching
\* position gets one mismatch report with its 1-based position and no other
\* position gets one, and the call is not aborted: it goes on to the side
\* effects and returns the registered values.
C28_AsStated ==
    \A t \in Targets :
        (Checked(t) /\ NoUserPanic(t)) =>
            /\ \A i \in DOMAIN last.args :
                  Cardinality(AtPosition(i, {"param", "matchFunc"}))
                      = IF Mismatches(t, i) THEN 1 ELSE 0
            /\ last.panic = ""
            /\ Len(entries[t].mocks[last.idx].returns) = Len(FuncType[t].out)
                  => last.rets = Registered(FuncType[t],
                                            entries[t].mocks[last.idx].returns)

\* a step of the builder within a session leaves the callbacks of the open
\* expectation in place and in order, and appends the callbacks it was given
\* (none, unless it is SideEffects); Times puts them in the mockEntry it adds
Accumulates ==
    /\ (OtherBuilderStep /\ SessionOpen /\ ~temp'.nil) =>
          \E callbacks \in CallbackChoices \cup {<<>>} :
              temp'.mock.callbacks = temp.mock.callbacks \o callbacks
    /\ \A t \in Targets : \A n \in 1..(MaxExpect + 1) :
          TimesStep(t, n) =>
              entries'[t].mocks[Len(entries'[t].mocks)].callbacks
                  = temp.mock.callbacks

\* the callbacks the most recent call ran are callbacks of its expectation
\* and ran in the order of the list; none ran when the verification of the
\* parameters panicked, and no return value was made when one panicked
InListOrder ==
    \A t \in Targets :
        (Called(t) /\ last.idx >= 1) =>
            LET callbacks == entries[t].mocks[last.idx].callbacks
            IN /\ \A i \in DOMAIN last.fired :
                     last.fired[i].cb \in DOMAIN callbacks
               /\ \A i, j \in DOMAIN last.fired :
                     i < j => last.fired[i].cb < last.fired[j].cb
               /\ last.panic = "" =>
                     \A cb \in DOMAIN callbacks :
                         (callbacks[cb].k = "general"
                             /\ callbacks[cb].callIndex = 0) => Runs(cb) # {}
               /\ last.panic \in {"compare", "index"} => last.fired = <<>>
               /\ last.panic = "callback" =>
                     /\ About(LastReps, t, {"nreturns"}) = {}
                     /\ last.rets = <<>>

\* C29: within a session the calls of SideEffects accumulate, each appending
\* its callbacks to the list of the open expectation, and the finalized
\* expectation has that list; a dispatched call runs the callbacks that
\* apply in the order of the list, after the verification of the parameters
\* and before the return values are made.
C29_SideEffectsAccumulateInOrder ==
    [][Accumulates /\ InListOrder']_vars

\* two callbacks registered one after the other ran in that order in the
\* first call of foo
C29_Witness ==
    /\ Called("foo") /\ last.idx = 1 /\ last.panic = ""
    /\ entries["foo"].mocks[1].callbacks =
          <<GeneralSideEffect(1, FALSE), GeneralSideEffect(0, FALSE)>>
    /\ last.fired = <<Fired(1, 1, 0, Nil), Fired(2, 1, 0, Nil)>>
    /\ last.rets = <<IntV(1)>>

\* the kinds of report a call makes about its shape: the number of
\* parameters, the number of variadic parameters, the number of returns
ShapeKinds == {"nparams", "nvariadic", "nreturns"}

\* a call of target t went beyond the expected count in Mock mode
Overflowed(t) ==
    \E i \in DOMAIN reports :
        /\ reports[i].kind = "calls" /\ reports[i].by = "makeFunc"
        /\ reports[i].name = t

\* C30 as the specification states it: in Mock mode a call that makes a
\* call-shape report (argument count, variadic length, return arity) marks
\* the entry as already reported, and teardown reports no count mismatch
\* for that entry.
C30_AsStated ==
    /\ \A t \in Targets :
          (Called(t) /\ ~entries[t].stub
              /\ About(LastReps, t, ShapeKinds) # {}) => entries[t].verified
    /\ phase = "done" =>
          \A t \in Targets :
              (torn[t].found /\ ~torn[t].stub
                  /\ About(reports, t, ShapeKinds) # {}) =>
                  About(TeardownReps, t, {"calls"}) = {}

\* C30: in Mock mode a call that makes a call-shape report leaves the
\* already-reported mark as it was: the mark is set exactly when some call
\* went beyond the expected count.  Teardown therefore still reports the
\* count mismatch, once, for an entry with a call-shape report, no call
\* beyond the count, and an expected count other than the actual one.
C30_ShapeErrorKeepsTeardownCheck ==
    /\ \A t \in Targets :
          (Called(t) /\ ~entries[t].stub
              /\ About(LastReps, t, ShapeKinds) # {}) =>
              (entries[t].verified <=> Overflowed(t))
    /\ phase = "done" =>
          \A t \in Targets :
              (/\ torn[t].found /\ ~torn[t].stub
               /\ About(reports, t, ShapeKinds) # {}
               /\ ~Overflowed(t)
               /\ torn[t].expect # torn[t].actual) =>
                  /\ ~torn[t].verified
                  /\ Cardinality(About(TeardownReps, t, {"calls"})) = 1

C30_Witness ==
    /\ phase = "done"
    /\ torn["foo"].found /\ ~torn["foo"].stub /\ ~torn["foo"].verified
    /\ torn["foo"].expect = 2 /\ torn["foo"].actual = 1
    /\ About(reports, "foo", {"nreturns"}) # {}
    /\ TeardownReps = <<CallsRep("verifyAll", "foo", 2, 1)>>

\* the first builder session of target t is open: Mock or Stub has
\* registered t and nothing has been finalized for it
FirstSession(t) ==
    /\ current = t /\ ~temp.nil
    /\ entries[t].found /\ entries[t].mocks = <<>>

\* C31 as the specification states it: a target is redirected only once an
\* expectation has been finalized for it, and an invocation made while its
\* first session is open changes no counter and makes no report.
C31_AsStated ==
    \A t \in Targets :
        /\ t \in patched => entries[t].mocks # <<>>
        /\ (Called(t) /\ FirstSession(t)) =>
              /\ entries[t].actual = 0
              /\ LastReps = <<>>

\* C31: a target is redirected by Mock or Stub itself: while a session is
\* open on a target the target is patched, and an invocation made while its
\* first session is open is dispatched and makes exactly one report.  For a
\* Mock it is counted and reported as a call beyond the expected count 0,
\* and the entry is marked verified; for a Stub the count is set back to 0
\* and the panic of the selection is recovered and reported.
C31_RedirectedAtSetup ==
    \A t \in Targets :
        /\ (phase # "done" /\ current = t /\ ~temp.nil) => t \in patched
        /\ (Called(t) /\ FirstSession(t)) =>
              IF entries[t].stub
              THEN /\ LastReps = <<PanicRep(t)>>
                   /\ entries[t].actual = 0
                   /\ last.panic = "index"
              ELSE /\ LastReps = <<CallsRep("makeFunc", t, 0,
                                            entries[t].actual)>>
                   /\ entries[t].actual >= 1
                   /\ entries[t].verified

C31_Witness ==
    /\ Called("foo") /\ FirstSession("foo") /\ ~entries["foo"].stub
    /\ "foo" \in patched
    /\ LastReps = <<CallsRep("makeFunc", "foo", 0, 1)>>

\* C32 as the specification states it: after verifyAll the registry is
\* empty and no builder session remains open, whatever the state was at
\* teardown.
C32_AsStated ==
    phase = "done" =>
        /\ \A t \in Targets : ~entries[t].found
        /\ current = NilCurrent
        /\ temp.nil

\* the mode of a funcEntry
Mode(entry) ==
    IF entry.nocall THEN "NotCalled" ELSE IF entry.stub THEN "Stub" ELSE "Mock"

\* C33 as the specification states it: the mode of an entry that holds a
\* finalized expectation never changes until teardown.
C33_AsStated ==
    [][\A t \in Targets :
          (entries[t].mocks # <<>> /\ phase' # "done") =>
              Mode(entries'[t]) = Mode(entries[t])]_vars

\* C33: until teardown an entry stays registered and keeps the stub flag
\* its first registration gave it; nocall, once set, stays set; and nocall
\* is set by NotCalled only, in whatever session of the target it is
\* called, so that an entry of mode Mock with finalized expectations can
\* still become one of mode NotCalled.
C33_ModeChangesByNotCalledOnly ==
    [][\A t \in Targets :
          (entries[t].found /\ phase' # "done") =>
              /\ entries'[t].found
              /\ entries'[t].stub = entries[t].stub
              /\ entries[t].nocall => entries'[t].nocall
              /\ (entries'[t].nocall /\ ~entries[t].nocall) =>
                     NotCalledStep(t)]_vars

C33_Witness ==
    /\ last.op = "NotCalled" /\ last.t = "foo" /\ last.nrep = 0
    /\ entries["foo"].nocall /\ ~entries["foo"].stub
    /\ entries["foo"].actual = 1 /\ ~entries["foo"].verified

\* C35: the expectations finalized for a target stay in its list, each at
\* its position and with its parameters, returns and callbacks as they
\* were, through every step but teardown and a NotCalled on the target
\* (which replaces the list): through Expects, Returns, SideEffects and
\* Times of later sessions of any target, and through every dispatch.
C35_FinalizedExpectationsFrozen ==
    [][\A t \in Targets :
          (phase' # "done" /\ ~NotCalledStep(t)) =>
              /\ Len(entries'[t].mocks) >= Len(entries[t].mocks)
              /\ \A i \in DOMAIN entries[t].mocks :
                    entries'[t].mocks[i] = entries[t].mocks[i]]_vars

\* a later session of foo has registered other returns than the finalized
\* expectation of foo holds
C35_Witness ==
    /\ current = "foo" /\ ~temp.nil
    /\ Len(entries["foo"].mocks) >= 1
    /\ entries["foo"].mocks[1].returns = <<IntV(1)>>
    /\ temp.mock.returns = <<IntV(2)>>
    /\ last.op = "builder"

\* C36 as the specification states it: the reports of teardown are
\* determined by the state teardown finds; whatever order the range over
\* m.entries takes, verifyAll makes the same sequence of reports.
C36_AsStated ==
    phase # "done" =>
        \A o1, o2 \in Orders({t \in Targets : entries[t].found}) :
            VerifyReps(o1) = VerifyReps(o2)

\* C37 as stated: no dispatched call, of a Mock or of a Stub target, in
\* whatever state of the builder, selects a mockEntry at a position outside
\* entry.mocks.
C37_AsStated ==
    \A t \in Targets : Called(t) => last.panic # "index"

\* C38: the verified mark of an entry is set by a call of a Mock target
\* beyond its counts and stays set through every later step up to
\* teardown, and verifyAll makes no report about an entry that is marked,
\* whatever its expect and actual are by then.
C38_VerifiedNeverReset ==
    [][\A t \in Targets :
          /\ (entries[t].verified /\ phase' # "done") => entries'[t].verified
          /\ (calls'[t] = calls[t] + 1 /\ last'.over /\ entries[t].found
                 /\ ~entries[t].stub) => entries'[t].verified
          /\ (phase' = "done" /\ entries[t].verified) =>
                \A i \in (Len(reports) + 1)..Len(reports') :
                    reports'[i].name # t]_vars

\* foo was called while its first session was open, the session was then
\* finalized with Twice, and teardown found expect 2 and actual 1
C38_Witness ==
    /\ phase = "done"
    /\ torn["foo"].verified /\ ~torn["foo"].stub
    /\ torn["foo"].expect = 2 /\ torn["foo"].actual = 1
    /\ reports = <<CallsRep("makeFunc", "foo", 0, 1)>>

\* C34 as stated: in every state, those between the writes of Times and
\* of NotCalled included, every funcEntry has as many mockEntries as its
\* expect or more, and exactly as many unless NotCalled finalized it.
C34_AsStated ==
    \A t \in Targets :
        entries[t].found =>
            /\ Len(entries[t].mocks) >= entries[t].expect
            /\ ~entries[t].nocall => Len(entries[t].mocks) = entries[t].expect

\* C39 as stated: a call that selected a mockEntry passes on one call
\* number, the one its increment gave it, to its first side effect and to
\* everything that follows it.
C39_AsStated ==
    \A g \in Goroutines :
        (At(g, "done") /\ Top(g).idx >= 1) =>
            Top(g).rest = Top(g).num

\* C40 as stated: while a target is patched its funcEntry is in m.entries,
\* and no dispatched call is reported as never set up.
C40_AsStated ==
    /\ \A t \in patched : entries[t].found
    /\ \A i \in DOMAIN reports : reports[i].kind # "neversetup"

====
